---------------------------- MODULE Spec2Model ----------------------------
(***************************************************************************)
(* A model of go-tag-updater's YAML tag update engine: the path validator, *)
(* the atomic file I/O and backup manager of the Updater, and the tag      *)
(* update engine of the Parser.                                            *)
(*                                                                         *)
(* Paths, keys and values are strings, handled character by character with *)
(* Len, SubSeq and \o as the Go code handles them with the strings and     *)
(* path/filepath packages.                                                 *)
(***************************************************************************)
EXTENDS Integers, Sequences, FiniteSets, TLC

VARIABLES
    goos,       \* the platform the binary was built for (runtime.GOOS)
    vIn,        \* path validator: the path handed to it
    vOut,       \* path validator: what validateAndCleanFilePath returned
    vExists,    \* path validator: what fileExists returned
    vPc,        \* path validator: "input", "validated", "checked"
    yText,      \* tag update engine: the text handed to it
    yTag,       \* tag update engine: the new tag value
    yPath,      \* tag update engine: the path the update went to
    yOut,       \* tag update engine: what the update returned
    yGot,       \* tag update engine: what GetTagValue returned on the new text
    yPc,        \* tag update engine: "input", "updated", "read", "updatedAt"
    yParsed,    \* tag update engine: the ParseResult handed to UpdateTag, as parsed
    yAfter,     \* tag update engine: the tree of that ParseResult after UpdateTag
    updater,    \* the Updater: backupDir, keepBackups, atomicWrite
    fs,         \* the disk: the text of every file, by path
    dirs,       \* the disk: the directories
    now,        \* the clock, in seconds
    proc,       \* the calls of the Updater's methods: one record per goroutine
    nCalls,     \* the calls made so far
    backupWrites, \* history: how often createBackup wrote each backup path
    lastCall,   \* history: what the call that returned last had returned
    config,     \* workflow: the CLIConfig of the SimpleTagUpdater
    remote,     \* workflow: the GitLab project: branches, files, merge requests
    flow,       \* workflow: the Execute in progress and what it returned
    gen,        \* branch manager: the GenerateUniqueBranchName call
    wait        \* conflict detector: the WaitForConflictsToResolve call

pathVars == <<goos, vIn, vOut, vExists, vPc>>
yamlVars == <<yText, yTag, yPath, yOut, yGot, yPc, yParsed, yAfter>>
fileVars == <<updater, fs, dirs, now, proc, nCalls, backupWrites, lastCall>>
flowVars == <<config, remote, flow>>
gitlabVars == <<gen, wait>>
vars == <<goos, vIn, vOut, vExists, vPc, yText, yTag, yPath, yOut, yGot, yPc,
          yParsed, yAfter,
          updater, fs, dirs, now, proc, nCalls, backupWrites, lastCall,
          config, remote, flow, gen, wait>>

(***************************************************************************)
(* Bounds of the model.                                                    *)
(***************************************************************************)
\* the longest generated path, in segments
MaxSegs == 3
\* the most entries of the top-level mapping of a generated document
MaxDocEntries == 2
\* the most calls of the Updater's methods in a run
MaxCalls == 2
\* the last second the clock reaches
MaxClock == 1

(***************************************************************************)
(* strings                                                                 *)
(***************************************************************************)
Char(s, i) == SubSeq(s, i, i)

\* strings.Contains
Contains(s, sub) ==
    \E i \in 1..(Len(s) - Len(sub) + 1) : SubSeq(s, i, i + Len(sub) - 1) = sub

\* strings.HasPrefix
HasPrefix(s, prefix) ==
    Len(s) >= Len(prefix) /\ SubSeq(s, 1, Len(prefix)) = prefix

LowerOf ==
    ("A" :> "a") @@ ("B" :> "b") @@ ("C" :> "c") @@ ("D" :> "d") @@
    ("E" :> "e") @@ ("F" :> "f") @@ ("G" :> "g") @@ ("H" :> "h") @@
    ("I" :> "i") @@ ("J" :> "j") @@ ("K" :> "k") @@ ("L" :> "l") @@
    ("M" :> "m") @@ ("N" :> "n") @@ ("O" :> "o") @@ ("P" :> "p") @@
    ("Q" :> "q") @@ ("R" :> "r") @@ ("S" :> "s") @@ ("T" :> "t") @@
    ("U" :> "u") @@ ("V" :> "v") @@ ("W" :> "w") @@ ("X" :> "x") @@
    ("Y" :> "y") @@ ("Z" :> "z")

IsLetter(c) == c \in DOMAIN LowerOf \/ c \in {LowerOf[u] : u \in DOMAIN LowerOf}

\* strings.ToLower
RECURSIVE ToLower(_)
ToLower(s) ==
    IF s = "" THEN ""
    ELSE (IF Char(s, 1) \in DOMAIN LowerOf THEN LowerOf[Char(s, 1)] ELSE Char(s, 1))
         \o ToLower(SubSeq(s, 2, Len(s)))

\* strings.ReplaceAll, for a one-character old and new
RECURSIVE ReplaceAll(_, _, _)
ReplaceAll(s, old, new) ==
    IF s = "" THEN ""
    ELSE (IF Char(s, 1) = old THEN new ELSE Char(s, 1))
         \o ReplaceAll(SubSeq(s, 2, Len(s)), old, new)

\* the elements of s between the characters of seps (empty elements kept)
RECURSIVE Split(_, _)
Split(s, seps) ==
    LET at == {i \in 1..Len(s) : Char(s, i) \in seps}
    IN  IF at = {} THEN <<s>>
        ELSE LET i == CHOOSE j \in at : \A k \in at : j <= k
             IN  <<SubSeq(s, 1, i - 1)>> \o Split(SubSeq(s, i + 1, Len(s)), seps)

RECURSIVE Join(_, _)
Join(elems, sep) ==
    IF elems = <<>> THEN ""
    ELSE IF Len(elems) = 1 THEN elems[1]
    ELSE elems[1] \o sep \o Join(Tail(elems), sep)

(***************************************************************************)
(* path/filepath, per platform                                             *)
(***************************************************************************)
GOOSes == {"linux", "windows"}

\* os.IsPathSeparator
Separators(os) == IF os = "windows" THEN {"\\", "/"} ELSE {"/"}

\* filepath.Separator
Separator(os) == IF os = "windows" THEN "\\" ELSE "/"

\* filepath.VolumeName for a drive letter (paths of the model hold no UNC prefix)
VolumeName(os, path) ==
    IF os = "windows" /\ Len(path) >= 2 /\ Char(path, 2) = ":" /\ IsLetter(Char(path, 1))
    THEN SubSeq(path, 1, 2)
    ELSE ""

\* The loop of filepath.Clean over the elements of the path: "" and "." are
\* dropped, ".." removes the element before it, is dropped at the root and is
\* kept at the start of a relative path.
RECURSIVE CleanElements(_, _, _)
CleanElements(elems, out, rooted) ==
    IF elems = <<>> THEN out
    ELSE LET e == Head(elems)
             rest == Tail(elems)
         IN  IF e = "" \/ e = "." THEN CleanElements(rest, out, rooted)
             ELSE IF e = ".."
                  THEN IF out # <<>> /\ out[Len(out)] # ".."
                       THEN CleanElements(rest, SubSeq(out, 1, Len(out) - 1), rooted)
                       ELSE IF rooted THEN CleanElements(rest, out, rooted)
                       ELSE CleanElements(rest, Append(out, ".."), rooted)
                  ELSE CleanElements(rest, Append(out, e), rooted)

\* filepath.Clean
Clean(os, path) ==
    LET vol == VolumeName(os, path)
        p == SubSeq(path, Len(vol) + 1, Len(path))
    IN  IF p = "" THEN path \o "."
        ELSE LET rooted == Char(p, 1) \in Separators(os)
                 out == CleanElements(Split(p, Separators(os)), <<>>, rooted)
                 body == (IF rooted THEN Separator(os) ELSE "") \o Join(out, Separator(os))
                 cleaned == IF body = "" THEN "." ELSE body
             IN  \* postClean (Windows): a relative path whose first element came to
                 \* hold a ':' gets ".\" in front, so that it names no drive
                 IF os = "windows" /\ vol = "" /\ ~rooted /\ out # <<>>
                    /\ Contains(out[1], ":") /\ cleaned # p
                 THEN "." \o Separator(os) \o cleaned
                 ELSE vol \o cleaned

\* filepath.IsAbs
IsAbs(os, path) ==
    IF os = "windows"
    THEN LET vol == VolumeName(os, path)
         IN  /\ vol # ""
             /\ Len(path) > Len(vol)
             /\ Char(path, Len(vol) + 1) \in Separators(os)
    ELSE HasPrefix(path, "/")

\* filepath.Dir
Dir(os, path) ==
    LET vol == VolumeName(os, path)
        p == SubSeq(path, Len(vol) + 1, Len(path))
        at == {i \in 1..Len(p) : Char(p, i) \in Separators(os)}
        last == IF at = {} THEN 0 ELSE CHOOSE j \in at : \A k \in at : k <= j
        dir == Clean(os, SubSeq(p, 1, last))
    IN  IF dir = "." /\ Len(vol) > 2 THEN vol ELSE vol \o dir

\* filepath.Base
Base(os, path) ==
    LET vol == VolumeName(os, path)
        p == SubSeq(path, Len(vol) + 1, Len(path))
        elems == SelectSeq(Split(p, Separators(os)), LAMBDA e : e # "")
    IN  IF path = "" THEN "."
        ELSE IF elems = <<>> THEN Separator(os)
        ELSE elems[Len(elems)]

\* filepath.Join of two elements
JoinPath(os, dir, name) ==
    IF dir = "" /\ name = "" THEN ""
    ELSE IF dir = "" THEN Clean(os, name)
    ELSE IF name = "" THEN Clean(os, dir)
    ELSE Clean(os, dir \o Separator(os) \o name)

(***************************************************************************)
(* the path validator (Updater.validateAndCleanFilePath, Updater.fileExists)*)
(***************************************************************************)
PathTraversalPattern == ".."
WindowsDriveLetterSeparator == ":"
WindowsPathSeparator == "\\"
UnixPathSeparator == "/"
UnixTempDir == "/tmp/"
UnixVarTempDir == "/var/tmp/"
WindowsCTempDir == "C:/temp/"
WindowsCTmpDir == "C:/tmp/"
WindowsDTempDir == "D:/temp/"
WindowsDTmpDir == "D:/tmp/"

NoError == "nil"
Rejected(kind) == [path |-> "", err |-> kind]
Accepted(path) == [path |-> path, err |-> NoError]

\* the allow-listed prefixes the absolute path is compared with
allowedPrefixesNoSlash(cleanPath) ==
    {"/tmp", "/var/tmp"}
    \cup (IF Contains(cleanPath, WindowsDriveLetterSeparator)
          THEN {"C:/temp", "C:/tmp", "D:/temp", "D:/tmp"}
          ELSE {})
allowedPrefixes(cleanPath) ==
    {UnixTempDir, UnixVarTempDir}
    \cup (IF Contains(cleanPath, WindowsDriveLetterSeparator)
          THEN {WindowsCTempDir, WindowsCTmpDir, WindowsDTempDir, WindowsDTmpDir}
          ELSE {})

\* the traversal check of the cleaned path
hasTraversalPrefixOnly(cleanPath) == HasPrefix(cleanPath, PathTraversalPattern)
hasTraversal(cleanPath) == Contains(cleanPath, PathTraversalPattern)

\* validateAndCleanFilePath, from the cleaned path on
validateCleanPath(os, cleanPath) ==
    IF hasTraversal(cleanPath)
    THEN Rejected("ValidationError")
    ELSE IF IsAbs(os, cleanPath)
         THEN LET normalizedPath ==
                      IF Contains(cleanPath, WindowsDriveLetterSeparator)
                      THEN ReplaceAll(cleanPath, WindowsPathSeparator, UnixPathSeparator)
                      ELSE cleanPath
                  allowed ==
                      \E prefix \in allowedPrefixes(cleanPath) :
                          HasPrefix(ToLower(normalizedPath), ToLower(prefix))
              IN  IF allowed THEN Accepted(normalizedPath)
                  ELSE Rejected("ValidationError")
         ELSE Accepted(cleanPath)

\* Updater.validateAndCleanFilePath
validateAndCleanFilePath(os, filePath) ==
    IF filePath = "" THEN Rejected("ValidationError")
    ELSE validateCleanPath(os, Clean(os, filePath))

\* Updater.fileExists, on a disk where os.Stat of the cleaned path succeeds
\* exactly when onDisk
fileExists(os, filePath, onDisk) ==
    IF validateAndCleanFilePath(os, filePath).err # NoError THEN FALSE
    ELSE onDisk

(***************************************************************************)
(* YAML documents (gopkg.in/yaml.v3 as the Parser uses it).                *)
(*                                                                         *)
(* A text is a sequence of lines of block YAML; a line holds its           *)
(* indentation, whether it starts a sequence entry ("- "), its key and its *)
(* scalar, as presented in the text (explicit tag, quoting style, text).   *)
(* The empty text is <<>>.                                                 *)
(***************************************************************************)
NoVal == [tag |-> "", style |-> "none", text |-> ""]
Pair(n, k, v) == [indent |-> n, dash |-> FALSE, hasKey |-> TRUE, key |-> k, val |-> v]
Plain(t) == [tag |-> "", style |-> "plain", text |-> t]
Quoted(t) == [tag |-> "", style |-> "double", text |-> t]

Digits == {"0", "1", "2", "3", "4", "5", "6", "7", "8", "9"}
IsInt(s) == s # "" /\ \A i \in 1..Len(s) : Char(s, i) \in Digits
IsFloat(s) ==
    \E d \in 2..(Len(s) - 1) :
        /\ Char(s, d) = "."
        /\ IsInt(SubSeq(s, 1, d - 1))
        /\ IsInt(SubSeq(s, d + 1, Len(s)))

\* yaml.v3 resolve: the implicit tag of a plain scalar
Resolve(value) ==
    IF value \in {"", "~", "null", "Null", "NULL"} THEN "!!null"
    ELSE IF value \in {"true", "True", "TRUE", "false", "False", "FALSE"} THEN "!!bool"
    ELSE IF IsInt(value) THEN "!!int"
    ELSE IF IsFloat(value) THEN "!!float"
    ELSE "!!str"

Scalar(value, tag, style) ==
    [kind |-> "scalar", value |-> value, tag |-> tag, style |-> style]
Mapping(pairs) == [kind |-> "mapping", content |-> pairs]
Sequence(items) == [kind |-> "sequence", content |-> items]
Document(root) == [kind |-> "document", content |-> <<root>>]
KV(k, v) == [key |-> k, value |-> v]

\* yaml.v3 parser.scalar and parser.node: the node of a scalar of the text
DecodeScalar(pres) ==
    IF pres.tag # "" THEN
        Scalar(pres.text, pres.tag,
               {"tagged"} \cup (IF pres.style = "plain" THEN {} ELSE {pres.style}))
    ELSE IF pres.style # "plain" THEN Scalar(pres.text, "!!str", {pres.style})
    ELSE Scalar(pres.text, Resolve(pres.text), {})

\* yaml.v3 encoder.node for a scalar: the tag is dropped when the value resolves
\* to it, a string that would resolve to something else is quoted
EncodeScalar(node) ==
    LET quoted == node.style \cap {"double", "single"}
        keepTag ==
            /\ node.tag # ""
            /\ \/ "tagged" \in node.style
               \/ /\ ~(node.tag = "!!str" /\ quoted # {})
                  /\ Resolve(node.value) # node.tag
                  /\ node.tag # "!!str"
        forceQuoting ==
            /\ node.tag = "!!str" /\ "tagged" \notin node.style /\ quoted = {}
            /\ Resolve(node.value) # "!!str"
    IN  [tag |-> IF keepTag THEN node.tag ELSE "",
         style |-> IF "double" \in node.style THEN "double"
                   ELSE IF "single" \in node.style THEN "single"
                   ELSE IF forceQuoting THEN "double"
                   ELSE "plain",
         text |-> node.value]

\* yaml.v3 Encoder.Encode with SetIndent(width): the lines of a node at
\* indentation n
RECURSIVE Emit(_, _, _)
EmitPairs(pairs, n, width) ==
    LET RECURSIVE Go(_)
        Go(i) ==
            IF i > Len(pairs) THEN <<>>
            ELSE LET kv == pairs[i]
                 IN  (IF kv.value.kind = "scalar"
                      THEN <<Pair(n, kv.key, EncodeScalar(kv.value))>>
                      ELSE <<Pair(n, kv.key, NoVal)>> \o Emit(kv.value, n + width, width))
                     \o Go(i + 1)
    IN  Go(1)
EmitItems(items, n, width) ==
    LET RECURSIVE Go(_)
        Go(i) ==
            IF i > Len(items) THEN <<>>
            ELSE LET item == items[i]
                     body == Emit(item, n + 2, width)
                 IN  (IF item.kind = "scalar"
                      THEN <<[indent |-> n, dash |-> TRUE, hasKey |-> FALSE,
                              key |-> "", val |-> EncodeScalar(item)]>>
                      ELSE <<[body[1] EXCEPT !.indent = n, !.dash = TRUE]>> \o Tail(body))
                     \o Go(i + 1)
    IN  Go(1)
Emit(node, n, width) ==
    IF node.kind = "document" THEN Emit(node.content[1], n, width)
    ELSE IF node.kind = "mapping" THEN EmitPairs(node.content, n, width)
    ELSE IF node.kind = "sequence" THEN EmitItems(node.content, n, width)
    ELSE <<[indent |-> n, dash |-> FALSE, hasKey |-> FALSE, key |-> "",
            val |-> EncodeScalar(node)]>>

\* yaml.v3 parser: the node that starts at the first line, and the lines left.
\* A line indented deeper than its block allows is a syntax error.
Failed == [ok |-> FALSE, node |-> Scalar("", "!!null", {}), rest |-> <<>>]
Parsed(node, rest) == [ok |-> TRUE, node |-> node, rest |-> rest]

RECURSIVE ParseNode(_)
RECURSIVE ParseMapping(_, _, _)
RECURSIVE ParseSequence(_, _, _)

\* the value of a key or of a sequence entry that holds no scalar on its line:
\* the block below it, or null
ParseNested(rest, n) ==
    IF rest # <<>> /\ (rest[1].indent > n \/ (rest[1].indent = n /\ rest[1].dash))
    THEN ParseNode(rest)
    ELSE Parsed(Scalar("", "!!null", {}), rest)

ParseMapping(lines, n, acc) ==
    IF lines = <<>> \/ lines[1].indent < n THEN Parsed(Mapping(acc), lines)
    ELSE LET l == lines[1]
         IN  IF l.indent > n \/ l.dash \/ ~l.hasKey THEN Failed
             ELSE IF l.val # NoVal
                  THEN ParseMapping(Tail(lines), n, Append(acc, KV(l.key, DecodeScalar(l.val))))
                  ELSE LET r == ParseNested(Tail(lines), n)
                       IN  IF ~r.ok THEN Failed
                           ELSE ParseMapping(r.rest, n, Append(acc, KV(l.key, r.node)))

ParseSequence(lines, n, acc) ==
    IF lines = <<>> \/ lines[1].indent < n \/ (lines[1].indent = n /\ ~lines[1].dash)
    THEN Parsed(Sequence(acc), lines)
    ELSE LET l == lines[1]
         IN  IF l.indent > n THEN Failed
             ELSE LET r == IF l.hasKey
                           THEN ParseMapping(<<[l EXCEPT !.indent = n + 2, !.dash = FALSE]>>
                                              \o Tail(lines), n + 2, <<>>)
                           ELSE IF l.val # NoVal
                           THEN Parsed(DecodeScalar(l.val), Tail(lines))
                           ELSE IF Tail(lines) # <<>> /\ Tail(lines)[1].indent > n
                           THEN ParseNode(Tail(lines))
                           ELSE Parsed(Scalar("", "!!null", {}), Tail(lines))
                  IN  IF ~r.ok THEN Failed
                      ELSE ParseSequence(r.rest, n, Append(acc, r.node))

ParseNode(lines) ==
    LET l == lines[1]
    IN  IF l.dash THEN ParseSequence(lines, l.indent, <<>>)
        ELSE IF l.hasKey THEN ParseMapping(lines, l.indent, <<>>)
        ELSE IF l.val # NoVal THEN Parsed(DecodeScalar(l.val), Tail(lines))
        ELSE Failed

\* yaml.Unmarshal into a yaml.Node: the document node, or a syntax error
Unmarshal(text) ==
    LET r == ParseNode(text)
    IN  IF r.ok /\ r.rest = <<>> THEN Parsed(Document(r.node), <<>>) ELSE Failed

(***************************************************************************)
(* The Parser (internal/yaml/parser.go).                                   *)
(*                                                                         *)
(* A TagLocation holds its path, its value and, for the *yaml.Node it      *)
(* points to, the node's address in the tree: the indices from the root.   *)
(***************************************************************************)
DefaultIndentation == 2
MaxFileSize == 10 * 1024 * 1024
MaxTagValueLength == 256

RECURSIVE NodeAt(_, _)
NodeAt(node, addr) ==
    IF addr = <<>> THEN node
    ELSE LET child == node.content[Head(addr)]
         IN  NodeAt(IF node.kind = "mapping" THEN child.value ELSE child, Tail(addr))

\* node.Value = value, through the pointer addr
SetValueAtNoop(node, addr, value) == node
\* node.Value = value, in every scalar of the tree
RECURSIVE SetValueEverywhere(_, _, _)
SetValueEverywhere(node, addr, value) ==
    IF node.kind = "scalar" THEN [node EXCEPT !.value = value]
    ELSE IF node.kind = "mapping"
    THEN [node EXCEPT !.content =
            [i \in 1..Len(node.content) |->
                KV(node.content[i].key,
                   SetValueEverywhere(node.content[i].value, addr, value))]]
    ELSE [node EXCEPT !.content =
            [i \in 1..Len(node.content) |->
                SetValueEverywhere(node.content[i], addr, value)]]
RECURSIVE SetValueAt(_, _, _)
SetValueAt(node, addr, value) ==
    IF addr = <<>> THEN [node EXCEPT !.value = value]
    ELSE LET i == Head(addr)
         IN  IF node.kind = "mapping"
             THEN [node EXCEPT !.content[i].value = SetValueAt(@, Tail(addr), value)]
             ELSE [node EXCEPT !.content[i] = SetValueAt(@, Tail(addr), value)]

\* Parser.isTagField
isTagField(key, valueNode) ==
    IF valueNode.kind # "scalar" THEN FALSE
    ELSE IF \E pattern \in {"tag", "version", "image", "release"} :
                Contains(ToLower(key), pattern)
    THEN TRUE
    ELSE LET value == ToLower(valueNode.value)
         IN  IF Contains(value, "v") \/ Contains(value, ".v") \/ Contains(value, "-")
             THEN Contains(value, "tag") \/ Contains(value, "version")
                  \/ Contains(key, "image")
             ELSE FALSE

\* Parser.findTagLocations: the locations below node, in the order of the walk
RECURSIVE findTagLocations(_, _, _)
findTagLocations(node, path, addr) ==
    LET RECURSIVE Walk(_)
        Walk(i) ==
            IF i > Len(node.content) THEN <<>>
            ELSE IF node.kind = "document"
            THEN findTagLocations(node.content[i], path, Append(addr, i)) \o Walk(i + 1)
            ELSE IF node.kind = "mapping"
            THEN LET keyNode == node.content[i].key
                     valueNode == node.content[i].value
                     nodePath == Append(path, keyNode)
                 IN  (IF keyNode # ""
                      THEN (IF isTagField(keyNode, valueNode)
                            THEN <<[path |-> nodePath, value |-> valueNode.value,
                                    node |-> Append(addr, i)]>>
                            ELSE <<>>)
                           \o findTagLocations(valueNode, nodePath, Append(addr, i))
                      ELSE <<>>)
                     \o Walk(i + 1)
            ELSE LET indexPath == Append(path, "[" \o ToString(i - 1) \o "]")
                 IN  findTagLocations(node.content[i], indexPath, Append(addr, i))
                     \o Walk(i + 1)
    IN  IF node.kind \in {"document", "mapping", "sequence"} THEN Walk(1) ELSE <<>>

\* len(content), in bytes: a line's key, scalar and indentation
TextSize(text) ==
    LET RECURSIVE Sum(_)
        Sum(i) == IF i > Len(text) THEN 0
                  ELSE text[i].indent + Len(text[i].key) + Len(text[i].val.text) + 3 + Sum(i + 1)
    IN  Sum(1)

NoParseResult ==
    [content |-> Document(Scalar("", "!!null", {})), tagLocations |-> <<>>,
     originalContent |-> <<>>, isValid |-> FALSE]

\* ParseContent, from what yaml.Unmarshal returned
parseUnmarshalled(content, r) ==
    IF ~r.ok
    THEN [err |-> "InvalidYAMLError",
          result |-> [NoParseResult EXCEPT !.originalContent = content]]
    ELSE [err |-> NoError,
          result |-> [content |-> r.node,
                      tagLocations |-> findTagLocations(r.node, <<>>, <<>>),
                      originalContent |-> content,
                      isValid |-> TRUE]]

\* Parser.ParseContent
ParseContent(content) ==
    IF content = <<>> THEN [err |-> "ValidationError", result |-> NoParseResult]
    ELSE IF TextSize(content) > MaxFileSize
    THEN [err |-> "ValidationError", result |-> NoParseResult]
    ELSE parseUnmarshalled(content, Unmarshal(content))

\* Parser.pathsEqual
pathsEqual(path1, path2) ==
    /\ Len(path1) = Len(path2)
    /\ \A i \in 1..Len(path1) : path1[i] = path2[i]

\* Parser.findTagByPath: the index of the first location whose path equals
\* targetPath, 0 for nil
findTagByPath(parseResult, targetPath) ==
    LET hits == {i \in 1..Len(parseResult.tagLocations) :
                    pathsEqual(parseResult.tagLocations[i].path, targetPath)}
    IN  IF hits = {} THEN 0 ELSE CHOOSE i \in hits : \A j \in hits : i <= j

\* Parser.createAndUpdateTag
createAndUpdateTag(parseResult, options) == [err |-> "ValidationError", text |-> <<>>]

\* Parser.UpdateTag, up to the encoding: the error it returns before it encodes,
\* and the tree it leaves in parseResult
updateNode(parseResult, options) ==
    IF options.newValue = ""
    THEN [err |-> "ValidationError", content |-> parseResult.content]
    ELSE IF Len(options.newValue) > MaxTagValueLength
    THEN [err |-> "ValidationError", content |-> parseResult.content]
    ELSE LET at == findTagByPath(parseResult, options.tagPath)
         IN  IF at = 0
             THEN [err |-> IF options.createIfMissing
                           THEN createAndUpdateTag(parseResult, options).err
                           ELSE "ValidationError",
                   content |-> parseResult.content]
             ELSE [err |-> NoError,
                   content |-> SetValueAt(parseResult.content,
                                          parseResult.tagLocations[at].node,
                                          options.newValue)]

\* Parser.UpdateTag, the encoding of the tree
encodeUpdated(updated) ==
    IF updated.err # NoError THEN [err |-> updated.err, text |-> <<>>]
    ELSE [err |-> NoError, text |-> Emit(updated.content, 0, DefaultIndentation)]

\* Parser.UpdateTag: the updated text
UpdateTag(parseResult, options) == encodeUpdated(updateNode(parseResult, options))

commonTagPaths ==
    << <<"tag">>,
       <<"image", "tag">>,
       <<"spec", "template", "spec", "containers", "image">>,
       <<"spec", "containers", "image">>,
       <<"metadata", "labels", "version">>,
       <<"version">> >>

\* UpdateTagSimple, from what ParseContent returned: the last of the listed
\* paths that is found is updated
updateLastCommon(parsed, newTag) ==
    LET found == {i \in 1..Len(commonTagPaths) :
                     findTagByPath(parsed.result, commonTagPaths[i]) # 0}
    IN  IF parsed.err # NoError THEN [err |-> parsed.err, text |-> <<>>]
        ELSE IF found = {} THEN [err |-> "ValidationError", text |-> <<>>]
        ELSE LET last == CHOOSE i \in found : \A j \in found : i >= j
             IN  UpdateTag(parsed.result,
                           [tagPath |-> commonTagPaths[last], newValue |-> newTag,
                            createIfMissing |-> FALSE])

\* UpdateTagSimple, from what ParseContent returned
updateFirstCommon(parsed, newTag) ==
    LET found == {i \in 1..Len(commonTagPaths) :
                     findTagByPath(parsed.result, commonTagPaths[i]) # 0}
    IN  IF parsed.err # NoError THEN [err |-> parsed.err, text |-> <<>>]
        ELSE IF found = {} THEN [err |-> "ValidationError", text |-> <<>>]
        ELSE LET first == CHOOSE i \in found : \A j \in found : i <= j
             IN  UpdateTag(parsed.result,
                           [tagPath |-> commonTagPaths[first], newValue |-> newTag,
                            createIfMissing |-> FALSE])

\* Parser.UpdateTagSimple
UpdateTagSimple(content, newTag) == updateFirstCommon(ParseContent(content), newTag)

\* Parser.GetTagValue
GetTagValue(parseResult, tagPath) ==
    LET at == findTagByPath(parseResult, tagPath)
    IN  IF at = 0 THEN [err |-> "ValidationError", value |-> ""]
        ELSE LET node == NodeAt(parseResult.content, parseResult.tagLocations[at].node)
             IN  IF node.value # "" THEN [err |-> NoError, value |-> node.value]
                 ELSE [err |-> NoError, value |-> parseResult.tagLocations[at].value]

\* the decoding of a node into interface{}: a mapping's keys must be unique and
\* a scalar must decode as its tag
RECURSIVE Decodes(_)
Decodes(node) ==
    IF node.kind = "scalar"
    THEN node.tag \in {"!!str", "!!binary"} \/ Resolve(node.value) = node.tag
         \/ (node.tag = "!!float" /\ Resolve(node.value) = "!!int")
    ELSE IF node.kind = "mapping"
    THEN /\ \A i, j \in 1..Len(node.content) :
                i # j => node.content[i].key # node.content[j].key
         /\ \A i \in 1..Len(node.content) : Decodes(node.content[i].value)
    ELSE \A i \in 1..Len(node.content) : Decodes(node.content[i])

\* ValidateYAML, from what yaml.Unmarshal returned
validateUnmarshalled(r) ==
    IF r.ok /\ Decodes(r.node) THEN NoError ELSE "InvalidYAMLError"

\* Parser.ValidateYAML
ValidateYAML(content) ==
    IF content = <<>> THEN "ValidationError"
    ELSE validateUnmarshalled(Unmarshal(content))

(***************************************************************************)
(* The path validator applied to the paths of the model: the paths of the  *)
(* repository's tests and every path of at most MaxSegs elements.          *)
(***************************************************************************)
PathElements == {"..", ".", "etc", "usr", "tmp", "var", "TMP", "app.yaml", "C:"}

TestPaths ==
    { "../../../etc/passwd", "..\\..\\..\\windows\\system32\\config\\sam",
      "/etc/passwd", "/etc/shadow", "./../../etc/passwd",
      "config/../../../etc/passwd", "test/../../../../../../etc/passwd",
      "/usr/bin/bash", "/bin/sh", "/sbin/init",
      "\\windows\\system32\\drivers\\etc\\hosts",
      "C:\\Windows\\System32\\config\\SAM", "/Program Files/malicious.exe",
      "etc/passwd", "usr/local/bin/test", "bin/sh", "sbin/init",
      "config.yaml", "./config.yaml", "configs/app.yaml", "test/data/sample.yaml",
      "/tmp/test.yaml", "/var/tmp/backup.yaml", "C:/temp/config.yaml",
      "D:/tmp/test.yaml", "../../sensitive.txt", "test-file.yaml", "",
      "/tmp/app..yaml", "configs/app..yaml" }

GeneratedPaths ==
    { root \o Join(elems, sep) :
        root \in {"", "/"}, sep \in {"/", "\\"},
        elems \in UNION {[1..n -> PathElements] : n \in 1..MaxSegs} }

PathInputs == TestPaths \cup GeneratedPaths

IdlePath ==
    /\ goos = "linux"
    /\ vIn = ""
    /\ vOut = Accepted("")
    /\ vExists = FALSE
    /\ vPc = "idle"

IdleYaml ==
    /\ yText = <<>>
    /\ yTag = ""
    /\ yPath = <<>>
    /\ yOut = [err |-> NoError, text |-> <<>>]
    /\ yGot = [err |-> NoError, value |-> ""]
    /\ yPc = "idle"
    /\ yParsed = NoParseResult
    /\ yAfter = NoParseResult.content

\* no call has returned
NoLast ==
    [op |-> "none", filePath |-> "", backupPath |-> "", success |-> FALSE,
     before |-> <<>>, after |-> <<>>]

\* no Updater at work: an empty disk and no call
IdleFiles ==
    /\ updater = [backupDir |-> "", keepBackups |-> TRUE, atomicWrite |-> TRUE]
    /\ fs = [p \in {} |-> <<>>]
    /\ dirs = {}
    /\ now = 0
    /\ proc = [self \in {} |-> 0]
    /\ nCalls = 0
    /\ backupWrites = [p \in {} |-> 0]
    /\ lastCall = NoLast

\* no Execute in progress: the result Execute starts from, nothing returned
NoUpdateResult ==
    [success |-> FALSE, branchName |-> "", mergeRequest |-> 0, fileUpdated |-> FALSE,
     message |-> ""]

\* pc is the step Execute is at; err is the error it returned; as history,
\* created tells that CreateBranch succeeded, deleteErr is what DeleteBranch
\* returned, and calls lists the requests sent that change the project
NoFlow ==
    [pc |-> "idle", newContent |-> <<>>, content |-> <<>>, branchName |-> "",
     result |-> NoUpdateResult, err |-> NoError, created |-> FALSE,
     deleteErr |-> NoError, calls |-> <<>>]

\* no SimpleTagUpdater at work
IdleFlow ==
    /\ config = [filePath |-> "", newTag |-> "", branchName |-> "",
                 targetBranch |-> "", dryRun |-> FALSE]
    /\ remote = [branches |-> {}, protected |-> {}, files |-> [f \in {} |-> <<>>],
                 mergeRequests |-> {}]
    /\ flow = NoFlow

\* no call of the branch manager or of the conflict detector
NoGenerate ==
    [pc |-> "idle", prefix |-> "", tag |-> "", baseName |-> "", name |-> "",
     err |-> NoError]
\* conflictingMRs lists the IIDs of ConflictInfo.ConflictingMRs; attempt, i and
\* stillConflicting are the locals of the loop; states is the state of every
\* merge request the project holds, elapsed the seconds since the call, tick
\* tells that ticker.C holds a tick and cancelled that ctx is done; as history,
\* site tells where the call returned and failed lists the merge requests whose
\* lookup failed in the last poll
NoWait ==
    [pc |-> "idle", conflictingMRs |-> <<>>, totalConflicts |-> 0, maxWaitTime |-> 0,
     attempt |-> 0, i |-> 0, stillConflicting |-> 0, err |-> NoError, site |-> "",
     states |-> <<>>, elapsed |-> 0, tick |-> FALSE, cancelled |-> FALSE,
     failed |-> {}]
IdleGitlab ==
    /\ gen = NoGenerate
    /\ wait = NoWait

InitPath ==
    /\ IdleYaml
    /\ IdleFiles
    /\ IdleFlow
    /\ IdleGitlab
    /\ goos \in GOOSes
    /\ vIn \in PathInputs
    /\ vOut = Accepted("")
    /\ vExists = FALSE
    /\ vPc = "input"

\* a call of validateAndCleanFilePath
ValidatePath ==
    /\ vPc = "input"
    /\ vOut' = validateAndCleanFilePath(goos, vIn)
    /\ vPc' = "validated"
    /\ UNCHANGED <<goos, vIn, vExists>>
    /\ UNCHANGED <<yamlVars, fileVars, flowVars, gitlabVars>>

\* a call of fileExists, the file being on the disk or not
CheckFileExists ==
    /\ vPc = "validated"
    /\ \E onDisk \in BOOLEAN : vExists' = fileExists(goos, vIn, onDisk)
    /\ vPc' = "checked"
    /\ UNCHANGED <<goos, vIn, vOut>>
    /\ UNCHANGED <<yamlVars, fileVars, flowVars, gitlabVars>>

NextPath == ValidatePath \/ CheckFileExists

SpecPath == InitPath /\ [][NextPath]_vars

(***************************************************************************)
(* Claims about the path validator, under SpecPath.                        *)
(***************************************************************************)
SensitiveNames == {"etc", "usr", "bin", "sbin", "windows", "Windows"}

FirstElement(os, path) ==
    LET elems == SelectSeq(Split(path, Separators(os)), LAMBDA e : e # "" /\ e # ".")
    IN  IF elems = <<>> THEN "" ELSE elems[1]

\* C1: a relative path whose first element names a sensitive system directory
\* (etc, usr, bin, sbin, a Windows system directory) is rejected with an error
\* and an empty path, and fileExists returns false for it.
C1_RelativeSystemPathRejected ==
    (vPc # "input" /\ vIn # "" /\ ~IsAbs(goos, vIn)
       /\ FirstElement(goos, Clean(goos, vIn)) \in SensitiveNames)
        => /\ vOut.err # NoError
           /\ vOut.path = ""
           /\ (vPc = "checked" => vExists = FALSE)

SafePrefixes ==
    {"/tmp/", "/var/tmp/", "C:/temp/", "C:/tmp/", "D:/temp/", "D:/tmp/"}

\* the cleaned path, its separators unified, compared without case
InSafeDirectory(os, path) ==
    \E prefix \in SafePrefixes :
        HasPrefix(ToLower(ReplaceAll(Clean(os, path), "\\", "/")), ToLower(prefix))

\* C2: an absolute path is accepted only if its cleaned, separator-unified,
\* lower-cased form starts with an allow-listed temp-directory prefix; every
\* other absolute path is rejected with an error and an empty path.
C2_AbsoluteOnlyInSafeDirectory ==
    (vPc # "input" /\ vIn # "" /\ IsAbs(goos, Clean(goos, vIn)) /\ ~InSafeDirectory(goos, vIn))
        => (vOut.err # NoError /\ vOut.path = "")

C2_Witness ==
    /\ vPc = "validated" /\ vIn # ""
    /\ IsAbs(goos, Clean(goos, vIn)) /\ ~InSafeDirectory(goos, vIn)
    /\ goos = "windows"
    /\ vOut.err = "ValidationError"

\* C3: a path whose cleaned form still contains ".." is rejected with an error
\* and an empty path, relative or absolute.
C3_TraversalRejected ==
    (vPc # "input" /\ vIn # "" /\ Contains(Clean(goos, vIn), ".."))
        => (vOut.err # NoError /\ vOut.path = "")

C3_Witness ==
    /\ vPc = "validated"
    /\ vIn = "config/../../../etc/passwd"
    /\ Contains(Clean(goos, vIn), "..")
    /\ vOut = Rejected("ValidationError")

(***************************************************************************)
(* The tag update engine applied to the documents of the model: a          *)
(* top-level mapping of at most MaxDocEntries of the entries below, in any *)
(* order and with repeats, written with an indentation of 2 or 4.          *)
(***************************************************************************)
DocEntries ==
    { KV("tag", Scalar("v1.0.0", "!!str", {})),
      KV("tag", Scalar("123", "!!int", {})),
      KV("tag", Scalar("1.0", "!!str", {"double"})),
      KV("version", Scalar("1.0.0", "!!str", {})),
      KV("name", Scalar("test-app", "!!str", {})),
      KV("name", Scalar("app-version", "!!str", {})),
      KV("image", Scalar("nginx:1.0", "!!str", {})),
      KV("image", Mapping(<<KV("tag", Scalar("old-tag", "!!str", {})),
                            KV("repository", Scalar("test/repo", "!!str", {}))>>)),
      KV("spec", Mapping(<<KV("containers",
                 Sequence(<<Mapping(<<KV("name", Scalar("web", "!!str", {})),
                                      KV("image", Scalar("nginx:1.0", "!!str", {}))>>)>>))>>)),
      KV("spec", Mapping(<<KV("containers",
                 Mapping(<<KV("image", Scalar("nginx:1.0", "!!str", {}))>>))>>)),
      KV("metadata", Mapping(<<KV("labels",
                 Mapping(<<KV("version", Scalar("v1", "!!str", {}))>>))>>)) }

\* a text that is no YAML: its second line is indented below no key
BrokenText == <<Pair(0, "tag", Plain("v0.9.0")), Pair(4, "name", Plain("test-app"))>>

\* the documents, the empty text and a text that is no YAML
DocTexts ==
    { Emit(Document(Mapping(entries)), 0, width) :
        width \in {2, 4},
        entries \in UNION {[1..n -> DocEntries] : n \in 1..MaxDocEntries} }
    \cup {<<>>, BrokenText}

RECURSIVE Repeat(_, _)
Repeat(s, n) ==
    IF n = 0 THEN ""
    ELSE IF n = 1 THEN s
    ELSE Repeat(s, n \div 2) \o Repeat(s, n - (n \div 2))

\* a tag value one character longer than MaxTagValueLength
LongTagValue == Repeat("9", MaxTagValueLength + 1)

TagValues == {"v2.0.0", "new-tag", "123", "true", "", LongTagValue}

\* the explicit paths handed to UpdateTag: the conventional ones, the path of a
\* sequence entry, and paths that differ from an indexed one in a segment, in
\* the order of the segments or in length
TagPaths ==
    {commonTagPaths[i] : i \in 1..Len(commonTagPaths)}
    \cup { <<>>, <<"image">>, <<"name">>, <<"Tag">>, <<"tag", "image">>,
           <<"image", "tag", "tag">>, <<"spec", "containers", "[0]", "image">> }

\* the first of the conventional paths that the text's index holds, <<>> if none
FirstCommonPath(text) ==
    LET parsed == ParseContent(text)
        found == {i \in 1..Len(commonTagPaths) :
                     \E k \in 1..Len(parsed.result.tagLocations) :
                         parsed.result.tagLocations[k].path = commonTagPaths[i]}
    IN  IF found = {} THEN <<>>
        ELSE commonTagPaths[CHOOSE i \in found : \A j \in found : i <= j]

InitYaml ==
    /\ IdlePath
    /\ IdleFlow
    /\ IdleGitlab
    /\ IdleFiles
    /\ yText \in DocTexts
    /\ yTag \in TagValues
    /\ yPath = <<>>
    /\ yOut = [err |-> NoError, text |-> <<>>]
    /\ yGot = [err |-> NoError, value |-> ""]
    /\ yPc = "input"
    /\ yParsed = NoParseResult
    /\ yAfter = NoParseResult.content

\* a call of UpdateTagSimple
CallUpdateTagSimple ==
    /\ yPc = "input"
    /\ yOut' = UpdateTagSimple(yText, yTag)
    /\ yPath' = FirstCommonPath(yText)
    /\ yPc' = "updated"
    /\ UNCHANGED <<yText, yTag, yGot, yParsed, yAfter>>
    /\ UNCHANGED <<pathVars, fileVars, flowVars, gitlabVars>>

\* ParseContent of the returned text, then GetTagValue on the updated path
CallGetTagValue ==
    /\ yPc = "updated"
    /\ yOut.err = NoError
    /\ yGot' = GetTagValue(ParseContent(yOut.text).result, yPath)
    /\ yPc' = "read"
    /\ UNCHANGED <<yText, yTag, yPath, yOut, yParsed, yAfter>>
    /\ UNCHANGED <<pathVars, fileVars, flowVars, gitlabVars>>

\* a call of ParseContent, then of UpdateTag at an explicit path; a nil
\* ParseResult is NoParseResult, which UpdateTag rejects as it rejects nil
CallUpdateTag ==
    /\ yPc = "input"
    /\ yParsed' = ParseContent(yText).result
    /\ \E path \in TagPaths :
          /\ yPath' = path
          /\ yOut' = UpdateTag(yParsed', [tagPath |-> path, newValue |-> yTag,
                                          createIfMissing |-> FALSE])
          /\ yAfter' = updateNode(yParsed', [tagPath |-> path, newValue |-> yTag,
                                             createIfMissing |-> FALSE]).content
    /\ yPc' = "updatedAt"
    /\ UNCHANGED <<yText, yTag, yGot>>
    /\ UNCHANGED <<pathVars, fileVars, flowVars, gitlabVars>>

NextYaml == CallUpdateTagSimple \/ CallGetTagValue \/ CallUpdateTag

SpecYaml == InitYaml /\ [][NextYaml]_vars

\* C10: when UpdateTagSimple(D, V) succeeds, ParseContent of the returned text
\* and GetTagValue on the path that was updated return exactly V.
C10_RoundTrip ==
    yPc = "read" => (yGot.err = NoError /\ yGot.value = yTag)

C10_Witness ==
    /\ yPc = "read"
    /\ yPath = <<"image", "tag">>
    /\ yTag = "123"
    /\ yGot.value = "123"

(***************************************************************************)
(* Claims about UpdateTag at an explicit path, under SpecYaml.             *)
(***************************************************************************)
\* the value is one UpdateTag accepts
ValidValue(value) == value # "" /\ Len(value) <= MaxTagValueLength

\* the locations of the index whose path is path
IndexedAt(parseResult, path) ==
    {i \in 1..Len(parseResult.tagLocations) : parseResult.tagLocations[i].path = path}

\* the first of them
FirstIndexedAt(parseResult, path) ==
    CHOOSE i \in IndexedAt(parseResult, path) :
        \A j \in IndexedAt(parseResult, path) : i <= j

\* two trees are the same, node by node, but for the value of the scalar at addr
RECURSIVE SameButValueAt(_, _, _)
SameButValueAt(n1, n2, addr) ==
    /\ n1.kind = n2.kind
    /\ IF n1.kind = "scalar"
       THEN /\ n1.tag = n2.tag
            /\ n1.style = n2.style
            /\ addr # <<>> => n1.value = n2.value
       ELSE /\ Len(n1.content) = Len(n2.content)
            /\ \A i \in 1..Len(n1.content) :
                  LET below == IF addr # <<>> /\ Head(addr) = i THEN Tail(addr)
                               ELSE <<0>>
                  IN  IF n1.kind = "mapping"
                      THEN /\ n1.content[i].key = n2.content[i].key
                           /\ SameButValueAt(n1.content[i].value, n2.content[i].value,
                                             below)
                      ELSE SameButValueAt(n1.content[i], n2.content[i], below)

\* C12: a successful UpdateTag replaces the value of the one scalar the first
\* location of the path points to; every other node of the tree, its kind, key,
\* tag, style, value and place, is what it was.
C12_OnlyTargetValueReplaced ==
    (yPc = "updatedAt" /\ yOut.err = NoError)
        => LET addr == yParsed.tagLocations[FirstIndexedAt(yParsed, yPath)].node
           IN  /\ SameButValueAt(yParsed.content, yAfter, addr)
               /\ NodeAt(yAfter, addr).kind = "scalar"
               /\ NodeAt(yAfter, addr).value = yTag

\* a document of two entries, updated below the second
C12_Witness ==
    /\ yPc = "updatedAt" /\ yOut.err = NoError
    /\ yPath = <<"image", "tag">>
    /\ yTag = "new-tag"
    /\ Len(yParsed.content.content[1].content) = 2
    /\ yParsed.content.content[1].content[1].key = "tag"
    /\ yAfter # yParsed.content
    /\ yAfter.content[1].content[1] = yParsed.content.content[1].content[1]

\* C14: UpdateTag at a path that equals no indexed location, segment by segment,
\* fails with a NotFoundError and leaves the tree as it was.
C14_MissingPathIsNotFoundError ==
    (/\ yPc = "updatedAt" /\ yParsed.isValid /\ ValidValue(yTag)
     /\ IndexedAt(yParsed, yPath) = {})
        => (yOut.err = "NotFoundError" /\ yAfter = yParsed.content)

\* C15: a tag value longer than MaxTagValueLength fails with a ValidationError
\* and returns no text, whatever the document: for UpdateTag and for
\* UpdateTagSimple.
C15_LongValueIsValidationError ==
    (yPc \in {"updated", "updatedAt"} /\ Len(yTag) > MaxTagValueLength)
        => (yOut.err = "ValidationError" /\ yOut.text = <<>>)

\* C16: no two locations of a ParseResult have equal paths.
C16_PathsUnique ==
    (yPc = "updatedAt" /\ yParsed.isValid)
        => \A i, j \in 1..Len(yParsed.tagLocations) :
              i # j => yParsed.tagLocations[i].path # yParsed.tagLocations[j].path

\* the rule of the specification for a tag-like field: the lower-cased key
\* holds tag, version, image or release, or the lower-cased value resembles a
\* version and the key holds tag, version or image
TagLikeKey(key) ==
    \E pattern \in {"tag", "version", "image", "release"} : Contains(ToLower(key), pattern)
TagLikeValue(key, value) ==
    /\ Contains(ToLower(value), "v") \/ Contains(ToLower(value), "-")
    /\ \E pattern \in {"tag", "version", "image"} : Contains(key, pattern)

\* C23: every location of a ParseResult is a field that the rule of the
\* specification classifies as tag-like.
C23_OnlyTagLikeIndexed ==
    (yPc = "updatedAt" /\ yParsed.isValid)
        => \A i \in 1..Len(yParsed.tagLocations) :
              LET location == yParsed.tagLocations[i]
                  key == location.path[Len(location.path)]
              IN  TagLikeKey(key) \/ TagLikeValue(key, location.value)

(***************************************************************************)
(* Claims about UpdateTagSimple's probe of the conventional paths, under   *)
(* SpecYaml.                                                               *)
(***************************************************************************)
\* the value the index of a text holds at a path: that of its first location
IndexValue(text, path) ==
    LET parseResult == ParseContent(text).result
    IN  parseResult.tagLocations[FirstIndexedAt(parseResult, path)].value

\* the conventional paths the index of a text holds, by their place in the list
ListedIn(text) ==
    {i \in 1..Len(commonTagPaths) :
        IndexedAt(ParseContent(text).result, commonTagPaths[i]) # {}}

\* C13: UpdateTagSimple with a value UpdateTag accepts, on a text that parses,
\* updates the first of the conventional paths, in the order of the list, that
\* the index of the text holds, and leaves the value at every path listed later
\* as it was; if the index holds none of them it fails with a ValidationError
\* and returns no text.
C13_FirstListedPathUpdated ==
    (yPc = "updated" /\ ParseContent(yText).err = NoError /\ ValidValue(yTag))
        => IF ListedIn(yText) = {}
           THEN yOut.err = "ValidationError" /\ yOut.text = <<>>
           ELSE LET first == CHOOSE i \in ListedIn(yText) :
                                 \A j \in ListedIn(yText) : i <= j
                IN  /\ yOut.err = NoError
                    /\ ListedIn(yOut.text) = ListedIn(yText)
                    /\ IndexValue(yOut.text, commonTagPaths[first]) = yTag
                    /\ \A j \in ListedIn(yText) \ {first} :
                          IndexValue(yOut.text, commonTagPaths[j])
                              = IndexValue(yText, commonTagPaths[j])

\* a text that holds the first and the last path of the list
C13_Witness ==
    /\ yPc = "updated" /\ yOut.err = NoError
    /\ yTag = "v2.0.0"
    /\ ListedIn(yText) = {1, 6}
    /\ IndexValue(yOut.text, <<"tag">>) = "v2.0.0"
    /\ IndexValue(yOut.text, <<"version">>) = "1.0.0"
    /\ IndexValue(yText, <<"tag">>) # "v2.0.0"

\* the places in the list of the single-word paths and of the paths three or
\* more keys deep
SingleWord == {i \in 1..Len(commonTagPaths) : Len(commonTagPaths[i]) = 1}

DeeplyNested == {i \in 1..Len(commonTagPaths) : Len(commonTagPaths[i]) >= 3}

\* C26: UpdateTagSimple with a value UpdateTag accepts, on a text that parses
\* and whose index holds both a single-word conventional path (tag or version)
\* and a deeply nested one, succeeds, sets the value at a single-word path and
\* leaves the value at every deeply nested path as it was.
C26_SingleWordPreferred ==
    ( /\ yPc = "updated" /\ ParseContent(yText).err = NoError /\ ValidValue(yTag)
      /\ ListedIn(yText) \cap SingleWord # {}
      /\ ListedIn(yText) \cap DeeplyNested # {} )
        => /\ yOut.err = NoError
           /\ \E i \in ListedIn(yText) \cap SingleWord :
                 IndexValue(yOut.text, commonTagPaths[i]) = yTag
           /\ \A j \in ListedIn(yText) \cap DeeplyNested :
                 IndexValue(yOut.text, commonTagPaths[j])
                     = IndexValue(yText, commonTagPaths[j])

(***************************************************************************)
(* The disk as the Updater sees it (package os, filepath.Glob, time.Now).  *)
(***************************************************************************)
TempFileSuffix == ".tmp"
BackupTimestampFormat == "20060102_150405"
MaxBackupFiles == 5

\* strings.HasSuffix
HasSuffix(s, suffix) ==
    Len(s) >= Len(suffix) /\ SubSeq(s, Len(s) - Len(suffix) + 1, Len(s)) = suffix

\* the characters of the model's paths, in byte order
ByteOrder == "-./0123456789:ABCDEFGHIJKLMNOPQRSTUVWXYZ\\_abcdefghijklmnopqrstuvwxyz"

Byte(c) == CHOOSE i \in 1..Len(ByteOrder) : Char(ByteOrder, i) = c

\* a < b, as Go compares strings
RECURSIVE StringLess(_, _)
StringLess(a, b) ==
    IF b = "" THEN FALSE
    ELSE IF a = "" THEN TRUE
    ELSE IF Char(a, 1) = Char(b, 1)
    THEN StringLess(SubSeq(a, 2, Len(a)), SubSeq(b, 2, Len(b)))
    ELSE Byte(Char(a, 1)) < Byte(Char(b, 1))

\* sort.Strings
RECURSIVE SortStrings(_)
SortStrings(set) ==
    IF set = {} THEN <<>>
    ELSE LET least == CHOOSE a \in set : \A b \in set \ {a} : StringLess(a, b)
         IN  <<least>> \o SortStrings(set \ {least})

\* time.Now().Format(BackupTimestampFormat), the clock at second t
Timestamp(t) == "20250629_12000" \o ToString(t)

\* filepath.Glob of dir/prefix*suffix: the files of dir whose name matches, sorted
\* by name
Glob(os, disk, dir, prefix, suffix) ==
    LET names == {Base(os, p) : p \in {q \in DOMAIN disk :
                      /\ Dir(os, q) = Clean(os, dir)
                      /\ HasPrefix(Base(os, q), prefix)
                      /\ HasSuffix(Base(os, q), suffix)
                      /\ Len(Base(os, q)) >= Len(prefix) + Len(suffix)}}
        sorted == SortStrings(names)
    IN  [i \in 1..Len(sorted) |-> JoinPath(os, dir, sorted[i])]

\* the disk after the file at path holds text, and after path is removed
WriteDisk(disk, path, text) ==
    [p \in DOMAIN disk \cup {path} |-> IF p = path THEN text ELSE disk[p]]
RemoveDisk(disk, path) == [p \in DOMAIN disk \ {path} |-> disk[p]]

\* what a failed write may leave of text in the file: any of its lines' prefixes
Prefixes(text) == {SubSeq(text, 1, k) : k \in 0..(Len(text) - 1)}

\* the file after text is written at its start: what it held beyond the end of
\* text stays
Overwrite(held, text) == text \o SubSeq(held, Len(text) + 1, Len(held))

\* the disk after text is written through an open file that handle names; a
\* file that no path names any more is not on the disk
WriteOpen(disk, handle, text) ==
    IF handle = "" THEN disk ELSE WriteDisk(disk, handle, Overwrite(disk[handle], text))

(***************************************************************************)
(* The Updater (internal/yaml/updater.go).                                 *)
(*                                                                         *)
(* A call of one of its methods is a record: where the call stands (pc),   *)
(* its arguments and locals, what it returned (res) and, as history, the   *)
(* system calls it made (io) and the disk as it was when it began.         *)
(***************************************************************************)
NoRequest ==
    [filePath |-> "", newTagValue |-> "", tagPath |-> <<>>, createBackup |-> FALSE,
     validateAfter |-> FALSE, dryRun |-> FALSE, backupPath |-> ""]

\* an UpdateResult and the error returned with it; site is the statement that
\* returned
NoResult ==
    [err |-> NoError, site |-> "", success |-> FALSE, updatedContent |-> <<>>,
     backupPath |-> "", originalContent |-> <<>>, validationError |-> NoError,
     changesDetected |-> FALSE]

\* the writeFile in progress: its cleaned path, the temporary file of an atomic
\* write, the text, and which write of the call it is; while os.WriteFile has
\* the file open, the path that names the open file now ("" once no path does);
\* as history, the text os.Rename moved onto the target
NoWrite ==
    [target |-> "", temp |-> "", content |-> <<>>, atomic |-> FALSE, ret |-> "",
     renameFailed |-> FALSE, removed |-> FALSE, handle |-> "", moved |-> <<>>]

IdleCall ==
    [pc |-> "idle", op |-> "none", req |-> NoRequest, path |-> "", statFor |-> "",
     w |-> NoWrite, matches |-> <<>>, i |-> 0, res |-> NoResult, io |-> <<>>,
     fs0 |-> [p \in {} |-> <<>>], dirs0 |-> {}]

\* the call returns err from site, with a nil result
Fail(call, err, site) ==
    [call EXCEPT !.pc = "done", !.res = [NoResult EXCEPT !.err = err, !.site = site]]

\* the call made a system call
Did(call, name, path) == [call EXCEPT !.io = Append(@, [call |-> name, path |-> path])]

\* UpdateTagInFile: the request is a dry run
isDryRunNever(request) == FALSE
isDryRun(request) == request.dryRun

\* PreviewUpdate: the copy of the request that is handed to UpdateTagInFile
previewRequest(request) == [request EXCEPT !.dryRun = TRUE, !.createBackup = FALSE]

\* writeFile: the Updater writes atomically
useAtomicNever(u) == FALSE
useAtomic(u) == u.atomicWrite

\* writeFileAtomic: the temporary file of filePath
tempPathInWorkDir(os, filePath) == Base(os, filePath) \o TempFileSuffix
tempPath(os, filePath) ==
    JoinPath(os, Dir(os, filePath), Base(os, filePath) \o TempFileSuffix)

\* Updater.writeFile, up to its first system call: the path is validated and
\* the write begins with the opening of the file os.WriteFile writes
writeValidated(os, u, call, v, content, ret) ==
    IF v.err # NoError THEN Fail(call, v.err, "write " \o ret)
    ELSE [call EXCEPT
            !.pc = "open",
            !.w = [target |-> v.path,
                   temp |-> IF useAtomic(u) THEN tempPath(os, v.path) ELSE "",
                   content |-> content, atomic |-> useAtomic(u), ret |-> ret,
                   renameFailed |-> FALSE, removed |-> FALSE,
                   handle |-> "", moved |-> <<>>]]

writeFile(os, u, call, filePath, content, ret) ==
    writeValidated(os, u, call, validateAndCleanFilePath(os, filePath), content, ret)

\* Updater.readFile, up to its first system call: the path is validated, and
\* validated again by fileExists
readValidated(os, call, v) ==
    IF v.err # NoError THEN Fail(call, v.err, "read")
    ELSE IF validateAndCleanFilePath(os, v.path).err # NoError
    THEN Fail(call, "FileNotFoundError", "read")
    ELSE [call EXCEPT !.pc = "stat", !.statFor = "read", !.path = v.path]

readFile(os, call, filePath) ==
    readValidated(os, call, validateAndCleanFilePath(os, filePath))

\* Updater.autoDetectTagPath
autoDetectTagPath(parseResult) ==
    LET locations == parseResult.tagLocations
        preferredPaths == <<"tag", "version", "image">>
        Hits(preferred) ==
            {k \in 1..Len(locations) :
                /\ Len(locations[k].path) > 0
                /\ ToLower(locations[k].path[Len(locations[k].path)]) = preferred}
        found == {i \in 1..Len(preferredPaths) : Hits(preferredPaths[i]) # {}}
    IN  IF Len(locations) = 0 THEN [err |-> "ValidationError", path |-> <<>>]
        ELSE IF found = {} THEN [err |-> NoError, path |-> locations[1].path]
        ELSE LET first == CHOOSE i \in found : \A j \in found : i <= j
                 hits == Hits(preferredPaths[first])
             IN  [err |-> NoError,
                  path |-> locations[CHOOSE k \in hits : \A j \in hits : k <= j].path]


\* UpdateTagInFile, from the text readFile returned to its next system call:
\* the dry run returns, the backup is created or the updated text is written
updateReadyNoBackup(os, u, ready, updatedContent) ==
    IF isDryRun(ready.req)
    THEN [ready EXCEPT !.pc = "done", !.res.success = TRUE, !.res.site = "dry run"]
    ELSE writeFile(os, u, ready, ready.req.filePath, updatedContent, "target")
updateReady(os, u, ready, updatedContent) ==
    IF isDryRun(ready.req)
    THEN [ready EXCEPT !.pc = "done", !.res.success = TRUE, !.res.site = "dry run"]
    ELSE IF ready.req.createBackup /\ u.keepBackups
    THEN [ready EXCEPT !.pc = "backup"]
    ELSE writeFile(os, u, ready, ready.req.filePath, updatedContent, "target")

\* the result is filled in with what UpdateTag returned
updateResult(os, u, call, originalContent, updated) ==
    IF updated.err # NoError THEN Fail(call, updated.err, "update")
    ELSE updateReady(os, u,
            [call EXCEPT !.res =
                [NoResult EXCEPT
                    !.originalContent = originalContent,
                    !.updatedContent = updated.text,
                    !.changesDetected = (originalContent # updated.text),
                    !.validationError = IF call.req.validateAfter
                                        THEN ValidateYAML(updated.text)
                                        ELSE NoError]],
            updated.text)

\* the tag at tagPath is updated
updateAtPath(os, u, call, originalContent, parseResult, tagPath) ==
    updateResult(os, u, call, originalContent,
                 UpdateTag(parseResult,
                           [tagPath |-> tagPath, newValue |-> call.req.newTagValue,
                            createIfMissing |-> FALSE]))

\* the tag path autoDetectTagPath returned is taken
updateDetected(os, u, call, originalContent, parseResult, detected) ==
    IF detected.err # NoError THEN Fail(call, detected.err, "detect")
    ELSE updateAtPath(os, u, call, originalContent, parseResult, detected.path)

\* the tag path is the request's or, if it has none, the detected one
updateParsed(os, u, call, originalContent, parsed) ==
    IF parsed.err # NoError THEN Fail(call, parsed.err, "parse")
    ELSE IF Len(call.req.tagPath) = 0
    THEN updateDetected(os, u, call, originalContent, parsed.result,
                        autoDetectTagPath(parsed.result))
    ELSE updateAtPath(os, u, call, originalContent, parsed.result, call.req.tagPath)

updateAfterRead(os, u, call, originalContent) ==
    updateParsed(os, u, call, originalContent, ParseContent(originalContent))

\* RollbackFromBackup: the backup's text passes the validation
backupUnchecked(backupContent) == NoError
validateBackup(backupContent) == ValidateYAML(backupContent)

\* RollbackFromBackup, from the text readFile returned to its next system call
rollbackShortened(os, u, call, backupContent, err) ==
    IF err # NoError THEN Fail(call, err, "validate")
    ELSE writeFile(os, u, [call EXCEPT !.res.originalContent = backupContent],
                   call.req.filePath, SubSeq(backupContent, 1, Len(backupContent) - 1),
                   "target")
rollbackValidated(os, u, call, backupContent, err) ==
    IF err # NoError THEN Fail(call, err, "validate")
    ELSE writeFile(os, u, [call EXCEPT !.res.originalContent = backupContent],
                   call.req.filePath, backupContent, "target")

rollbackAfterRead(os, u, call, backupContent) ==
    rollbackValidated(os, u, call, backupContent, validateBackup(backupContent))

\* a writeFile of the call returned nil: createBackup returns the backup's path
\* and UpdateTagInFile writes the updated text, or the call returns
writeDone(os, u, call) ==
    IF call.w.ret = "backup"
    THEN writeFile(os, u, [call EXCEPT !.res.backupPath = call.path],
                   call.req.filePath, call.res.updatedContent, "target")
    ELSE [call EXCEPT !.pc = "done", !.res.success = (call.op # "rollback"),
                      !.res.site = "end"]

\* the call of a method begins: its history starts with the disk as it is
Begin(op, request) ==
    [IdleCall EXCEPT !.op = op, !.req = request, !.fs0 = fs, !.dirs0 = dirs]


(***************************************************************************)
(* The Updater at work on a disk: the files and requests of the model.     *)
(***************************************************************************)
AppText ==
    Emit(Document(Mapping(<<KV("tag", Scalar("v1.0.0", "!!str", {})),
                            KV("name", Scalar("test-app", "!!str", {}))>>)), 0, 2)

BackupDirs == {"", "backups", "../backups"}

\* the backups of app.yaml that earlier runs left in dir, one more than
\* MaxBackupFiles
OldBackups(dir) ==
    {JoinPath("linux", dir, "app.yaml.20250628_12000" \o ToString(k) \o ".backup") :
        k \in 0..MaxBackupFiles}

\* where createBackup puts the backups of cfg/app.yaml: the backup directory
\* or, without one, the directory of the file
BackupHome(u) == IF u.backupDir = "" THEN "cfg" ELSE u.backupDir

InitialDisk(dir, older) ==
    [p \in {"cfg/app.yaml", "broken.backup"}
           \cup (IF older THEN OldBackups(dir) ELSE {}) |->
        IF p = "broken.backup" THEN BrokenText ELSE AppText]

FilePaths == {"cfg/app.yaml", "/etc/passwd", ""}

\* the requests of a single caller
SoloRequests ==
    [filePath : FilePaths, newTagValue : {"v2.0.0", ""}, tagPath : {<<>>},
     createBackup : BOOLEAN, validateAfter : {TRUE}, dryRun : BOOLEAN,
     backupPath : {""}]

\* a second document, of the same base name, in another directory
ProdText ==
    Emit(Document(Mapping(<<KV("tag", Scalar("v1.5.0", "!!str", {})),
                            KV("name", Scalar("prod-app", "!!str", {}))>>)), 0, 2)

\* the requests of callers that run concurrently: each has its own new value;
\* the first updates cfg/app.yaml, the second that file or prod/app.yaml
RaceRequests(self) ==
    [filePath : IF self = 1 THEN {"cfg/app.yaml"} ELSE {"cfg/app.yaml", "prod/app.yaml"},
     newTagValue : {IF self = 1 THEN "v2.0.0" ELSE "v3.0.0"}, tagPath : {<<>>},
     createBackup : BOOLEAN, validateAfter : {TRUE}, dryRun : {FALSE},
     backupPath : {""}]

Requests(self) == IF DOMAIN proc = {1} THEN SoloRequests ELSE RaceRequests(self)

\* the backups a caller may name: one that is no YAML, one that is not there,
\* and the backups createBackup wrote
BackupPaths ==
    {"", "broken.backup", "missing.backup"} \cup DOMAIN backupWrites

InitFiles ==
    /\ IdlePath
    /\ IdleFlow
    /\ IdleGitlab
    /\ IdleYaml
    /\ updater \in [backupDir : BackupDirs, keepBackups : BOOLEAN, atomicWrite : BOOLEAN]
    /\ \E older \in BOOLEAN :
          /\ older => updater.backupDir \in {"", "backups"}
          /\ fs = InitialDisk(BackupHome(updater), older)
          /\ dirs = {".", "cfg"}
                    \cup (IF older THEN {Clean("linux", BackupHome(updater))} ELSE {})
    /\ now = 0
    /\ proc = [self \in {1} |-> IdleCall]
    /\ nCalls = 0
    /\ backupWrites = [p \in {} |-> 0]
    /\ lastCall = NoLast

\* a goroutine may call a method
Callable(self) == proc[self].pc = "idle" /\ nCalls < MaxCalls

\* UpdateTagInFile, up to the first system call of readFile
enterUpdate(os, call) ==
    IF call.req.filePath = "" THEN Fail(call, "ValidationError", "request")
    ELSE IF call.req.newTagValue = "" THEN Fail(call, "ValidationError", "request")
    ELSE readFile(os, call, call.req.filePath)

UpdateTagInFile ==
  \E self \in DOMAIN proc :
    /\ Callable(self)
    /\ \E request \in Requests(self) :
          proc' = [proc EXCEPT ![self] = enterUpdate(goos, Begin("update", request))]
    /\ nCalls' = nCalls + 1
    /\ UNCHANGED <<updater, fs, dirs, now, backupWrites, lastCall, pathVars, yamlVars, flowVars, gitlabVars>>

PreviewUpdate ==
  \E self \in DOMAIN proc :
    /\ Callable(self)
    /\ \E request \in Requests(self) :
          proc' = [proc EXCEPT ![self] =
                      enterUpdate(goos, Begin("preview", previewRequest(request)))]
    /\ nCalls' = nCalls + 1
    /\ UNCHANGED <<updater, fs, dirs, now, backupWrites, lastCall, pathVars, yamlVars, flowVars, gitlabVars>>

\* RollbackFromBackup, up to the os.Stat of fileExists
RollbackFromBackup ==
  \E self \in DOMAIN proc :
    /\ Callable(self)
    /\ \E filePath \in FilePaths, backupPath \in BackupPaths :
          LET call == Begin("rollback", [NoRequest EXCEPT !.filePath = filePath,
                                                          !.backupPath = backupPath])
          IN  proc' = [proc EXCEPT ![self] =
                IF filePath = "" THEN Fail(call, "ValidationError", "request")
                ELSE IF backupPath = "" THEN Fail(call, "ValidationError", "request")
                ELSE IF validateAndCleanFilePath(goos, backupPath).err # NoError
                THEN Fail(call, "FileNotFoundError", "exists")
                ELSE [call EXCEPT !.pc = "stat", !.statFor = "exists",
                                  !.path = backupPath]]
    /\ nCalls' = nCalls + 1
    /\ UNCHANGED <<updater, fs, dirs, now, backupWrites, lastCall, pathVars, yamlVars, flowVars, gitlabVars>>

\* CleanupOldBackups, up to filepath.Glob
CleanupOldBackups ==
  \E self \in DOMAIN proc :
    /\ Callable(self)
    /\ \E filePath \in FilePaths :
          LET call == Begin("cleanup", [NoRequest EXCEPT !.filePath = filePath])
          IN  proc' = [proc EXCEPT ![self] =
                IF updater.backupDir = ""
                THEN [call EXCEPT !.pc = "done", !.res.site = "no backup directory"]
                ELSE [call EXCEPT !.pc = "glob"]]
    /\ nCalls' = nCalls + 1
    /\ UNCHANGED <<updater, fs, dirs, now, backupWrites, lastCall, pathVars, yamlVars, flowVars, gitlabVars>>


\* one more write of the backup at path by createBackup
CountBackupWrite(call, path) ==
    IF call.w.ret # "backup" THEN backupWrites
    ELSE [p \in DOMAIN backupWrites \cup {path} |->
            IF p \notin DOMAIN backupWrites THEN 1
            ELSE IF p = path THEN backupWrites[p] + 1
            ELSE backupWrites[p]]

\* fileExists, os.Stat having succeeded or not; then readFile goes on
afterStat(os, call, ok) ==
    IF ~ok THEN Fail(call, "FileNotFoundError", call.statFor)
    ELSE IF call.statFor = "exists" THEN readFile(os, call, call.path)
    ELSE [call EXCEPT !.pc = "read"]

\* fileExists: os.Stat of the validated path
Stat ==
  \E self \in DOMAIN proc, ok \in BOOLEAN :
    /\ proc[self].pc = "stat"
    /\ ok => validateAndCleanFilePath(goos, proc[self].path).path \in DOMAIN fs
    /\ proc' = [proc EXCEPT ![self] =
          afterStat(goos, Did(@, "stat", validateAndCleanFilePath(goos, @.path).path), ok)]
    /\ UNCHANGED <<updater, fs, dirs, now, nCalls, backupWrites, lastCall, pathVars, yamlVars, flowVars, gitlabVars>>

\* readFile: os.ReadFile; then the method goes on to its next system call
ReadFile ==
  \E self \in DOMAIN proc :
    LET call == proc[self]
        did == Did(call, "read", call.path)
    IN  /\ call.pc = "read"
        /\ \E ok \in BOOLEAN :
              /\ ok => call.path \in DOMAIN fs
              /\ proc' = [proc EXCEPT ![self] =
                    IF ~ok THEN Fail(did, "FileSystemError", "read")
                    ELSE IF call.op = "rollback"
                    THEN rollbackAfterRead(goos, updater, did, fs[call.path])
                    ELSE updateAfterRead(goos, updater, did, fs[call.path])]
        /\ UNCHANGED <<updater, fs, dirs, now, nCalls, backupWrites, lastCall, pathVars, yamlVars, flowVars, gitlabVars>>

\* Updater.createBackup, up to the first system call of its writeFile
createBackup ==
  \E self \in DOMAIN proc :
    LET call == proc[self]
        filePath == call.req.filePath
        content == call.res.originalContent
        timestamp == Timestamp(now)
        baseFileName == Base(goos, filePath)
        inDir == JoinPath(goos, updater.backupDir,
                          baseFileName \o "." \o timestamp \o ".backup")
        beside == filePath \o "." \o timestamp \o ".backup"
        did == Did(call, "mkdir", updater.backupDir)
    IN  /\ call.pc = "backup"
        /\ IF updater.backupDir # ""
           THEN \E ok \in BOOLEAN :
                  IF ok
                  THEN /\ dirs' = dirs \cup {Clean(goos, updater.backupDir)}
                       /\ proc' = [proc EXCEPT ![self] =
                             writeFile(goos, updater, [did EXCEPT !.path = inDir],
                                       inDir, content, "backup")]
                  ELSE /\ dirs' = dirs
                       /\ proc' = [proc EXCEPT ![self] = Fail(did, "PathError", "mkdir")]
           ELSE /\ dirs' = dirs
                /\ proc' = [proc EXCEPT ![self] =
                      writeFile(goos, updater, [call EXCEPT !.path = beside],
                                beside, content, "backup")]
        /\ UNCHANGED <<updater, fs, now, nCalls, backupWrites, lastCall, pathVars, yamlVars, flowVars, gitlabVars>>

\* the file os.WriteFile writes: the temporary file of an atomic write
Written(call) == IF call.w.atomic THEN call.w.temp ELSE call.w.target

\* os.Rename of from onto to by another goroutine: a file open at from is now
\* named to, and the file that to named is named by no path
Renamed(call, from, to) ==
    IF call.pc = "write" /\ call.w.handle = from THEN [call EXCEPT !.w.handle = to]
    ELSE IF call.pc = "write" /\ call.w.handle = to THEN [call EXCEPT !.w.handle = ""]
    ELSE call

\* os.Remove of path by another goroutine: a file open at path is named by no
\* path
Removed(call, path) ==
    IF call.pc = "write" /\ call.w.handle = path THEN [call EXCEPT !.w.handle = ""]
    ELSE call

\* os.WriteFile, first half: the file is created or truncated
OpenFile ==
  \E self \in DOMAIN proc :
    LET call == proc[self]
        did == Did(call, "open", Written(call))
    IN  /\ call.pc = "open"
        /\ \E ok \in BOOLEAN :
              /\ ok => Dir(goos, Written(call)) \in dirs
              /\ IF ok
                 THEN /\ fs' = WriteDisk(fs, Written(call), <<>>)
                      /\ proc' = [proc EXCEPT ![self] =
                            [did EXCEPT !.pc = "write", !.w.handle = Written(call)]]
                      /\ backupWrites' = IF call.w.atomic THEN backupWrites
                                         ELSE CountBackupWrite(call, call.w.target)
                 ELSE /\ proc' = [proc EXCEPT ![self] =
                                     Fail(did, "FileSystemError", "open")]
                      /\ UNCHANGED <<fs, backupWrites>>
        /\ UNCHANGED <<updater, dirs, now, nCalls, lastCall, pathVars, yamlVars, flowVars, gitlabVars>>

\* os.WriteFile, second half: the text is written, or a part of it
WriteData ==
  \E self \in DOMAIN proc :
    LET call == proc[self]
        did == Did(call, "write", Written(call))
    IN  /\ call.pc = "write"
        /\ \/ /\ fs' = WriteOpen(fs, call.w.handle, call.w.content)
              /\ proc' = [proc EXCEPT ![self] =
                    IF call.w.atomic THEN [did EXCEPT !.pc = "rename"]
                    ELSE writeDone(goos, updater, did)]
           \/ \E part \in Prefixes(call.w.content) :
                 /\ fs' = WriteOpen(fs, call.w.handle, part)
                 /\ proc' = [proc EXCEPT ![self] = Fail(did, "FileSystemError", "write")]
        /\ UNCHANGED <<updater, dirs, now, nCalls, backupWrites, lastCall, pathVars, yamlVars, flowVars, gitlabVars>>

\* writeFileAtomic: os.Rename of the temporary file onto the target
Rename ==
  \E self \in DOMAIN proc :
    LET call == proc[self]
        did == Did(call, "rename", call.w.target)
    IN  /\ call.pc = "rename"
        /\ \E ok \in BOOLEAN :
              /\ ok => call.w.temp \in DOMAIN fs
              /\ IF ok
                 THEN /\ fs' = WriteDisk(RemoveDisk(fs, call.w.temp), call.w.target,
                                         fs[call.w.temp])
                      /\ proc' = [other \in DOMAIN proc |->
                            IF other = self
                            THEN writeDone(goos, updater,
                                           [did EXCEPT !.w.moved = fs[call.w.temp]])
                            ELSE Renamed(proc[other], call.w.temp, call.w.target)]
                      /\ backupWrites' = CountBackupWrite(call, call.w.target)
                 ELSE /\ proc' = [proc EXCEPT ![self] =
                             [did EXCEPT !.pc = "remove", !.w.renameFailed = TRUE]]
                      /\ UNCHANGED <<fs, backupWrites>>
        /\ UNCHANGED <<updater, dirs, now, nCalls, lastCall, pathVars, yamlVars, flowVars, gitlabVars>>

\* writeFileAtomic: os.Remove of the temporary file, its error dropped
RemoveTemp ==
  \E self \in DOMAIN proc :
    LET call == proc[self]
        did == Did(call, "remove", call.w.temp)
    IN  /\ call.pc = "remove"
        /\ \E ok \in BOOLEAN :
              /\ ok => call.w.temp \in DOMAIN fs
              /\ fs' = IF ok THEN RemoveDisk(fs, call.w.temp) ELSE fs
              /\ proc' = [other \in DOMAIN proc |->
                    IF other = self
                    THEN Fail([did EXCEPT !.w.removed = ok], "FileSystemError", "rename")
                    ELSE IF ok THEN Removed(proc[other], call.w.temp)
                    ELSE proc[other]]
        /\ UNCHANGED <<updater, dirs, now, nCalls, backupWrites, lastCall, pathVars, yamlVars, flowVars, gitlabVars>>

\* CleanupOldBackups: filepath.Glob of the backups of the file
ListBackups ==
  \E self \in DOMAIN proc :
    LET call == proc[self]
        baseFileName == Base(goos, call.req.filePath)
        matches == Glob(goos, fs, updater.backupDir, baseFileName \o ".", ".backup")
        did == Did(call, "glob", JoinPath(goos, updater.backupDir,
                                          baseFileName \o ".*.backup"))
    IN  /\ call.pc = "glob"
        /\ proc' = [proc EXCEPT ![self] =
              IF Len(matches) > MaxBackupFiles
              THEN [did EXCEPT !.pc = "cleanup", !.matches = matches,
                               !.i = MaxBackupFiles + 1]
              ELSE [did EXCEPT !.pc = "done", !.matches = matches, !.res.site = "end"]]
        /\ UNCHANGED <<updater, fs, dirs, now, nCalls, backupWrites, lastCall, pathVars, yamlVars, flowVars, gitlabVars>>

\* CleanupOldBackups: os.Remove of matches[i], its error skipped
RemoveBackup ==
  \E self \in DOMAIN proc :
    LET call == proc[self]
        did == Did(call, "remove", call.matches[call.i])
    IN  /\ call.pc = "cleanup"
        /\ \E ok \in BOOLEAN :
              /\ ok => call.matches[call.i] \in DOMAIN fs
              /\ fs' = IF ok THEN RemoveDisk(fs, call.matches[call.i]) ELSE fs
              /\ proc' = [other \in DOMAIN proc |->
                    IF other = self
                    THEN IF call.i + 1 > Len(call.matches)
                         THEN [did EXCEPT !.pc = "done", !.i = call.i + 1,
                                          !.res.site = "end"]
                         ELSE [did EXCEPT !.i = call.i + 1]
                    ELSE IF ok THEN Removed(proc[other], call.matches[call.i])
                    ELSE proc[other]]
        /\ UNCHANGED <<updater, dirs, now, nCalls, backupWrites, lastCall, pathVars, yamlVars, flowVars, gitlabVars>>

\* the method returns to its caller
\* what the caller keeps of a call that returned: the method, its file, the
\* backup path and the success of its result, and the text of the file when
\* the call began
Returned(call) ==
    [op |-> call.op, filePath |-> Clean(goos, call.req.filePath),
     backupPath |-> call.res.backupPath, success |-> call.res.success,
     before |-> IF Clean(goos, call.req.filePath) \in DOMAIN call.fs0
                THEN call.fs0[Clean(goos, call.req.filePath)] ELSE <<>>,
     after |-> call.res.updatedContent]

\* the call returns
Return ==
  \E self \in DOMAIN proc :
    /\ proc[self].pc = "done"
    /\ proc' = [proc EXCEPT ![self] = IdleCall]
    /\ UNCHANGED <<updater, fs, dirs, now, nCalls, backupWrites, lastCall, pathVars, yamlVars, flowVars, gitlabVars>>

\* the call returns to a caller that keeps what it returned
ReturnResult ==
  \E self \in DOMAIN proc :
    /\ proc[self].pc = "done"
    /\ proc' = [proc EXCEPT ![self] = IdleCall]
    /\ lastCall' = Returned(proc[self])
    /\ UNCHANGED <<updater, fs, dirs, now, nCalls, backupWrites, pathVars, yamlVars, flowVars, gitlabVars>>

\* a second passes; the clock is read by createBackup only, so that it is
\* enough for it to advance between the calls and before createBackup
Tick ==
    /\ now < MaxClock
    /\ \A self \in DOMAIN proc : proc[self].pc \in {"idle", "backup"}
    /\ now' = now + 1
    /\ UNCHANGED <<updater, fs, dirs, proc, nCalls, backupWrites, lastCall, pathVars, yamlVars, flowVars, gitlabVars>>

Next ==
    \/ Tick
    \/ UpdateTagInFile
    \/ PreviewUpdate
    \/ RollbackFromBackup
    \/ CleanupOldBackups
    \/ Stat
    \/ ReadFile
    \/ createBackup
    \/ OpenFile
    \/ WriteData
    \/ Rename
    \/ RemoveTemp
    \/ ListBackups
    \/ RemoveBackup
    \/ Return

Spec == InitFiles /\ [][Next]_vars


(***************************************************************************)
(* The same update applied again: an Updater without backups on a disk     *)
(* that holds one document, and UpdateTagInFile called one call after the  *)
(* other.                                                                  *)
(***************************************************************************)
\* a document whose only tag field is one by its value, one with a quoted and
\* an integer tag, and one written with an indentation of 4
RepeatTexts ==
    { AppText,
      Emit(Document(Mapping(<<KV("name", Scalar("app-version", "!!str", {}))>>)), 0, 2),
      Emit(Document(Mapping(<<KV("tag", Scalar("1.0", "!!str", {"double"})),
                              KV("version", Scalar("123", "!!int", {}))>>)), 0, 2),
      Emit(Document(Mapping(<<KV("image",
                Mapping(<<KV("repository", Scalar("test/repo", "!!str", {})),
                          KV("tag", Scalar("old-tag", "!!str", {}))>>))>>)), 0, 4) }

InitRepeat ==
    /\ IdlePath
    /\ IdleFlow
    /\ IdleGitlab
    /\ IdleYaml
    /\ updater \in [backupDir : {""}, keepBackups : {FALSE}, atomicWrite : BOOLEAN]
    /\ \E text \in RepeatTexts : fs = [p \in {"cfg/app.yaml"} |-> text]
    /\ dirs = {".", "cfg"}
    /\ now = 0
    /\ proc = [self \in {1} |-> IdleCall]
    /\ nCalls = 0
    /\ backupWrites = [p \in {} |-> 0]
    /\ lastCall = NoLast

NextRepeat ==
    \/ UpdateTagInFile
    \/ Stat
    \/ ReadFile
    \/ OpenFile
    \/ WriteData
    \/ Rename
    \/ RemoveTemp
    \/ Return

SpecRepeat == InitRepeat /\ [][NextRepeat]_vars

(***************************************************************************)
(* Two goroutines that call UpdateTagInFile of one Updater at the same     *)
(* time, within one second: no lock is taken, and every system call of one *)
(* may fall between two system calls of the other.                         *)
(***************************************************************************)
InitRace ==
    /\ IdlePath
    /\ IdleFlow
    /\ IdleGitlab
    /\ IdleYaml
    /\ updater \in [backupDir : {"", "backups"}, keepBackups : {TRUE},
                    atomicWrite : BOOLEAN]
    /\ fs = [p \in {"cfg/app.yaml", "prod/app.yaml"} |->
                IF p = "cfg/app.yaml" THEN AppText ELSE ProdText]
    /\ dirs = {".", "cfg", "prod"}
    /\ now = 0
    /\ proc = [self \in {1, 2} |-> IdleCall]
    /\ nCalls = 0
    /\ backupWrites = [p \in {} |-> 0]
    /\ lastCall = NoLast

NextRace ==
    \/ UpdateTagInFile
    \/ Stat
    \/ ReadFile
    \/ createBackup
    \/ OpenFile
    \/ WriteData
    \/ Rename
    \/ RemoveTemp

SpecRace == InitRace /\ [][NextRace]_vars

(***************************************************************************)
(* Claims about the Updater at work on a disk, under Spec.                 *)
(***************************************************************************)
\* the file at path is in disk1 what it is in disk2
SameFile(disk1, disk2, path) ==
    IF path \in DOMAIN disk1
    THEN path \in DOMAIN disk2 /\ disk1[path] = disk2[path]
    ELSE path \notin DOMAIN disk2

\* the call made one of the system calls named
Made(call, names) == \E i \in DOMAIN call.io : call.io[i].call \in names

\* the validator rejects the path
IsRejected(path) == path # "" /\ validateAndCleanFilePath(goos, path).err # NoError

\* C4: every file operation validates its target path before it touches the
\* disk: a call whose file path the validator rejects, and a backup creation
\* whose backup path it rejects, has made no system call at all.
C4_NoSystemCallOnRejectedPath ==
    \A self \in DOMAIN proc :
        LET call == proc[self]
        IN  /\ (call.pc = "done" /\ IsRejected(call.req.filePath)) => call.io = <<>>
            /\ (call.op = "update" /\ call.w.ret = "" /\ IsRejected(call.path))
                  => ~Made(call, {"mkdir"})

\* the live file of a call, as the disk names it
LiveFile(call) == Clean(goos, call.req.filePath)

\* the live file holds the complete text it held when the call began, or the
\* complete text the call writes to it
OldOrNew(call) ==
    \/ SameFile(fs, call.fs0, LiveFile(call))
    \/ /\ call.w.ret = "target"
       /\ LiveFile(call) \in DOMAIN fs
       /\ fs[LiveFile(call)] = call.w.content

\* C5 as stated: during and after an UpdateTagInFile or RollbackFromBackup call
\* the target file holds the complete old text or the complete new text, for
\* every Updater configuration.
C5_TargetOldOrNew ==
    \A self \in DOMAIN proc :
        (proc[self].op \in {"update", "rollback"} /\ ~IsRejected(proc[self].req.filePath))
            => OldOrNew(proc[self])

\* C5, amended: during and after an UpdateTagInFile or RollbackFromBackup call of
\* an Updater that writes atomically (atomicWrite, as NewUpdater sets it), the
\* target file holds the complete old text or the complete new text.
C5_AtomicTargetOldOrNew ==
    \A self \in DOMAIN proc :
        (/\ updater.atomicWrite
         /\ proc[self].op \in {"update", "rollback"}
         /\ ~IsRejected(proc[self].req.filePath))
            => OldOrNew(proc[self])

\* the write of the updated text failed after the backup was created
C5_Witness ==
    \E self \in DOMAIN proc :
        LET call == proc[self]
        IN  /\ updater.atomicWrite
            /\ call.op = "update" /\ call.pc = "done"
            /\ call.res.err = "FileSystemError" /\ call.w.ret = "target"
            /\ call.path \in DOMAIN fs /\ call.path \notin DOMAIN call.fs0
            /\ fs[call.path] = call.fs0[LiveFile(call)]
            /\ fs[LiveFile(call)] = call.fs0[LiveFile(call)]

\* the system calls of an atomic write: the file opened and written is another
\* file of the target's directory, and it is renamed onto the target once
SiblingThenRename(call) ==
    /\ \A i \in DOMAIN call.io :
          call.io[i].call = "rename"
              => /\ i > 2
                 /\ call.io[i - 1].call = "write" /\ call.io[i - 2].call = "open"
                 /\ call.io[i - 1].path = call.io[i - 2].path
                 /\ call.io[i - 1].path # call.io[i].path
                 /\ Dir(goos, call.io[i - 1].path) = Dir(goos, call.io[i].path)
    /\ \A i, j \in DOMAIN call.io :
          (/\ call.io[i].call = "rename" /\ call.io[j].call = "rename"
           /\ call.io[i].path = call.io[j].path) => i = j
    /\ \A i \in DOMAIN call.io :
          call.io[i].call \in {"open", "write"}
              => /\ call.io[i].path # LiveFile(call)
                 /\ call.io[i].path # call.path

\* a write that ended with a failed rename: the removal of the temporary file
\* was the last system call, the target is as it was and the error is a
\* FileSystemError
AfterFailedRename(call) ==
    /\ call.res.err = "FileSystemError"
    /\ call.io[Len(call.io)] = [call |-> "remove", path |-> call.w.temp]
    /\ SameFile(fs, call.fs0, call.w.target)

C7_BackupsWriteOnce ==
    \A path \in DOMAIN backupWrites : backupWrites[path] <= 1

\* C8: PreviewUpdate, and UpdateTagInFile with DryRun, change nothing on the
\* disk: no file and no directory is created, written, renamed or removed, and
\* the only system calls made are those of the read.
C8_DryRunChangesNothing ==
    \A self \in DOMAIN proc :
        LET call == proc[self]
        IN  (call.op = "preview" \/ (call.op = "update" /\ call.req.dryRun))
                => /\ fs = call.fs0
                   /\ dirs = call.dirs0
                   /\ ~Made(call, {"mkdir", "open", "write", "rename", "remove", "glob"})

C8_Witness ==
    \E self \in DOMAIN proc :
        LET call == proc[self]
        IN  /\ call.op = "preview" /\ call.pc = "done"
            /\ call.res.success /\ call.res.changesDetected
            /\ call.res.updatedContent # call.fs0["cfg/app.yaml"]
            /\ Made(call, {"read"})
            /\ fs = call.fs0

\* the backup the call names is missing, or is no valid YAML, when it begins
BadBackup(call) ==
    LET v == validateAndCleanFilePath(goos, call.req.backupPath)
    IN  \/ v.err # NoError
        \/ v.path \notin DOMAIN call.fs0
        \/ ValidateYAML(call.fs0[v.path]) # NoError

\* the temporary file an atomic write of the live file would use
LiveTemp(call) ==
    JoinPath(goos, Dir(goos, LiveFile(call)), Base(goos, LiveFile(call)) \o ".tmp")

\* C9: a RollbackFromBackup whose backup is missing or fails the validation
\* returns an error, leaves the live file as it was and creates no temporary
\* file next to it.
C9_FailedRollbackLeavesFile ==
    \A self \in DOMAIN proc :
        LET call == proc[self]
        IN  (/\ call.op = "rollback" /\ call.pc = "done"
             /\ call.req.filePath # "" /\ call.req.backupPath # ""
             /\ BadBackup(call))
                => /\ call.res.err # NoError
                   /\ SameFile(fs, call.fs0, LiveFile(call))
                   /\ SameFile(fs, call.fs0, LiveTemp(call))
                   /\ ~Made(call, {"open", "write", "rename", "remove"})

C9_Witness ==
    \E self \in DOMAIN proc :
        LET call == proc[self]
        IN  /\ call.op = "rollback" /\ call.pc = "done"
            /\ call.req.filePath = "cfg/app.yaml"
            /\ call.req.backupPath = "broken.backup"
            /\ call.res.err = "InvalidYAMLError" /\ call.res.site = "validate"
            /\ Made(call, {"read"})
            /\ fs["cfg/app.yaml"] = call.fs0["cfg/app.yaml"]

\* the backups of the file on the disk: those createBackup names after it, in
\* the backup directory or, without one, beside the file
BackupsOf(filePath) ==
    {p \in DOMAIN fs :
        /\ HasSuffix(p, ".backup")
        /\ IF updater.backupDir # ""
           THEN /\ Dir(goos, p) = Clean(goos, updater.backupDir)
                /\ HasPrefix(Base(goos, p), Base(goos, filePath) \o ".")
           ELSE HasPrefix(p, filePath \o ".")}

\* C17: after CleanupOldBackups(path) returned without error, at most
\* MaxBackupFiles backups of the file exist, in the backup directory or beside
\* the file.
C17_AtMostMaxBackups ==
    \A self \in DOMAIN proc :
        LET call == proc[self]
        IN  (/\ call.op = "cleanup" /\ call.pc = "done" /\ call.res.err = NoError
             /\ call.req.filePath = "cfg/app.yaml")
                => Cardinality(BackupsOf(call.req.filePath)) <= MaxBackupFiles

\* the backups of the file on a disk, as BackupsOf finds them on the disk of the
\* state
BackupsOn(disk, filePath) ==
    {p \in DOMAIN disk :
        /\ HasSuffix(p, ".backup")
        /\ IF updater.backupDir # ""
           THEN /\ Dir(goos, p) = Clean(goos, updater.backupDir)
                /\ HasPrefix(Base(goos, p), Base(goos, filePath) \o ".")
           ELSE HasPrefix(p, filePath \o ".")}

\* C27: after CleanupOldBackups(path) returned without error, called when more
\* than MaxBackupFiles backups of the file existed, exactly MaxBackupFiles of
\* them remain and every backup the call removed is older than every backup
\* that remains; a backup is older than another when the creation second that
\* createBackup wrote into its name is the earlier one.
C27_KeepsMostRecent ==
    \A self \in DOMAIN proc :
        LET call == proc[self]
        IN  (/\ call.op = "cleanup" /\ call.pc = "done" /\ call.res.err = NoError
             /\ call.req.filePath = "cfg/app.yaml"
             /\ Cardinality(BackupsOn(call.fs0, call.req.filePath)) > MaxBackupFiles)
                => /\ Cardinality(BackupsOf(call.req.filePath)) = MaxBackupFiles
                   /\ \A removed \in BackupsOn(call.fs0, call.req.filePath)
                                         \ BackupsOf(call.req.filePath) :
                         \A kept \in BackupsOf(call.req.filePath) :
                             StringLess(Base(goos, removed), Base(goos, kept))

\* an UpdateTagInFile that is to back the file up before it writes it
BacksUp(call) ==
    /\ call.op = "update"
    /\ call.req.createBackup
    /\ updater.keepBackups
    /\ ~call.req.dryRun

\* C24: in an UpdateTagInFile that is no dry run, with a backup requested and
\* backups enabled, the target is as it was until the write of the target
\* begins, which includes every call whose backup failed; and once that write
\* has begun, the backup exists and holds the text the file held when the call
\* began.
C24_BackupThenWrite ==
    \A self \in DOMAIN proc :
        LET call == proc[self]
        IN  BacksUp(call)
               => /\ call.w.ret # "target" => SameFile(fs, call.fs0, LiveFile(call))
                  /\ call.w.ret = "target"
                        => /\ call.path # LiveFile(call)
                           /\ call.path \in DOMAIN fs
                           /\ fs[call.path] = call.fs0[LiveFile(call)]

\* a call that wrote the backup and then the new text
C24_Witness ==
    \E self \in DOMAIN proc :
        LET call == proc[self]
        IN  /\ BacksUp(call) /\ call.pc = "done" /\ call.res.success
            /\ call.res.backupPath \in DOMAIN fs
            /\ call.res.backupPath \notin DOMAIN call.fs0
            /\ fs[call.res.backupPath] = call.fs0[LiveFile(call)]
            /\ fs[LiveFile(call)] = call.res.updatedContent
            /\ fs[LiveFile(call)] # call.fs0[LiveFile(call)]

(***************************************************************************)
(* An update and the rollback that follows it: the caller keeps what each  *)
(* call returned.                                                          *)
(***************************************************************************)
NextRollback ==
    \/ Tick
    \/ UpdateTagInFile
    \/ RollbackFromBackup
    \/ Stat
    \/ ReadFile
    \/ createBackup
    \/ OpenFile
    \/ WriteData
    \/ Rename
    \/ RemoveTemp
    \/ ReturnResult

SpecRollback == InitFiles /\ [][NextRollback]_vars

\* a RollbackFromBackup that returned nil, of the file and from the backup of
\* the UpdateTagInFile that returned before it
RolledBack(call) ==
    /\ call.op = "rollback" /\ call.pc = "done" /\ call.res.err = NoError
    /\ lastCall.op = "update" /\ lastCall.success
    /\ lastCall.backupPath # ""
    /\ call.req.backupPath = lastCall.backupPath
    /\ LiveFile(call) = lastCall.filePath

BothReturned ==
    \A self \in DOMAIN proc : proc[self].op = "update" /\ proc[self].pc = "done"

\* the texts the calls computed and set out to write to their target
TextsFor(path) ==
    {proc[self].w.content : self \in {s \in DOMAIN proc :
        proc[s].w.ret = "target" /\ proc[s].w.target = path}}

\* no system call failed but a rename
OnlyRenameFailed ==
    \A self \in DOMAIN proc : proc[self].res.err = NoError \/ proc[self].res.site = "rename"

\* C18: two concurrent UpdateTagInFile calls on one path of an Updater that
\* writes atomically, no system call failing but a rename: once both returned
\* and one of them reported success, the file holds the complete text one of
\* the two computed, and a call that reports success renamed its own text into
\* place.
C18_LastRenameWins ==
    (/\ BothReturned /\ OnlyRenameFailed /\ updater.atomicWrite
     /\ LiveFile(proc[1]) = LiveFile(proc[2]))
        => /\ (\E self \in DOMAIN proc : proc[self].res.success)
                 => /\ LiveFile(proc[1]) \in DOMAIN fs
                    /\ fs[LiveFile(proc[1])] \in TextsFor(LiveFile(proc[1]))
           /\ \A self \in DOMAIN proc :
                 proc[self].res.success => proc[self].w.moved = proc[self].w.content

\* C19: two concurrent UpdateTagInFile calls on different files, no system call
\* failing but a rename: once both returned, a call that reports success has
\* left its target with the text it computed from its own original, and its
\* backup with that original.
C19_DistinctFilesIsolated ==
    (BothReturned /\ OnlyRenameFailed /\ LiveFile(proc[1]) # LiveFile(proc[2]))
        => \A self \in DOMAIN proc :
                 LET call == proc[self]
                 IN  call.res.success
                        => /\ call.res.originalContent = call.fs0[LiveFile(call)]
                           /\ fs[LiveFile(call)] = call.res.updatedContent
                           /\ call.res.backupPath # ""
                                 => /\ call.res.backupPath \in DOMAIN fs
                                    /\ fs[call.res.backupPath] = call.res.originalContent

(***************************************************************************)
(* Claims about the same update applied again, under SpecRepeat.           *)
(***************************************************************************)
\* the text is what UpdateTagInFile writes when it sets the detected tag of one
\* of the documents to value
IsUpdateOutput(text, value) ==
    \E original \in RepeatTexts :
        LET parseResult == ParseContent(original).result
            detected == autoDetectTagPath(parseResult)
            updated == UpdateTag(parseResult,
                                 [tagPath |-> detected.path, newValue |-> value,
                                  createIfMissing |-> FALSE])
        IN  detected.err = NoError /\ updated.err = NoError /\ updated.text = text

\* C11: UpdateTagInFile with the same file, path selection and value, applied to
\* the text that its first application wrote, computes that same text again: it
\* does not fail to find or to update the tag, and its result has
\* updatedContent = originalContent and changesDetected = FALSE.
C11_SecondUpdateChangesNothing ==
    \A self \in DOMAIN proc :
        LET call == proc[self]
            live == LiveFile(call)
        IN  (/\ call.op = "update" /\ call.pc = "done"
             /\ ValidValue(call.req.newTagValue)
             /\ live \in DOMAIN call.fs0
             /\ IsUpdateOutput(call.fs0[live], call.req.newTagValue)
             /\ Made(call, {"read"}) /\ call.res.site # "read")
                => /\ call.res.site \notin {"parse", "detect", "update"}
                   /\ call.res.err = NoError
                         => /\ call.res.updatedContent = call.res.originalContent
                            /\ ~call.res.changesDetected

(***************************************************************************)
(* SimpleTagUpdater: the workflow on a GitLab project.  Execute reads the  *)
(* file from the target branch, updates the tag in its text, prepares a    *)
(* branch name and, unless it is a dry run, creates the branch, commits    *)
(* the text to it and opens a merge request.  Every request to GitLab may  *)
(* fail.                                                                   *)
(***************************************************************************)
DefaultBranch == "main"
UpdateBranchPrefix == "update-tag/"
MaxBranchNameLength == 100
MinBranchNameLength == 1

\* time.Now().Format("20060102-150405"), the clock at second t
BranchTimestamp(t) == "20250629-12000" \o ToString(t)

\* the branch a request names: GetFile, UpdateFile and CreateBranch take the
\* default branch for an empty one
RefOf(branch) == IF branch = "" THEN DefaultBranch ELSE branch

\* validateBranchName
validateBranchName(name) ==
    IF name = "" THEN "ValidationError"
    ELSE IF Len(name) < MinBranchNameLength THEN "ValidationError"
    ELSE IF \E bad \in {" ", "..", "~", "^", ":", "?", "*", "[", "\\", "\t", "\n", "\r"} :
                Contains(name, bad)
    THEN "ValidationError"
    ELSE IF HasPrefix(name, "-") \/ HasSuffix(name, "-") THEN "ValidationError"
    ELSE IF HasPrefix(name, ".") \/ HasSuffix(name, ".") THEN "ValidationError"
    ELSE IF HasSuffix(name, ".lock") THEN "ValidationError"
    ELSE NoError

\* BranchManager.GenerateUniqueBranchName, up to its request to GitLab: the name
\* made of the prefix, the cleaned tag and the time
baseName(prefix, tag, timestamp) ==
    LET used == IF prefix = "" THEN UpdateBranchPrefix ELSE prefix
        cleanTag == ReplaceAll(ReplaceAll(tag, "/", "-"), ":", "-")
        maxTagLength == MaxBranchNameLength - Len(used) - Len(timestamp) - 2
    IN  IF Len(used \o cleanTag \o "-" \o timestamp) > MaxBranchNameLength
        THEN IF maxTagLength > 0
             THEN used \o SubSeq(cleanTag, 1, maxTagLength) \o "-" \o timestamp
             ELSE used \o timestamp
        ELSE used \o cleanTag \o "-" \o timestamp

\* BranchManager.GenerateUniqueBranchName, from what BranchExists returned
uniqueBranchName(base, exists) == IF exists THEN base \o "-alt" ELSE base

\* the UpdateRequest updateYAMLContent hands to UpdateTagInFile
yamlRequest(tempFile, newTag) ==
    [NoRequest EXCEPT !.filePath = tempFile, !.newTagValue = newTag,
                      !.createBackup = FALSE, !.validateAfter = TRUE, !.dryRun = TRUE]

\* updateYAMLContent, from what UpdateTagInFile returned
updatedContent(call) ==
    IF call.res.err # NoError THEN [err |-> call.res.err, text |-> <<>>]
    ELSE IF ~call.res.success THEN [err |-> "error", text |-> <<>>]
    ELSE [err |-> NoError, text |-> call.res.updatedContent]

\* SimpleTagUpdater.updateYAMLContent on a temporary file that was written and
\* is read without failure: ValidateFile, then UpdateTagInFile as a dry run
updateYAMLContent(content, newTag) ==
    IF ValidateYAML(content) # NoError
    THEN [err |-> ValidateYAML(content), text |-> <<>>]
    ELSE IF newTag = "" THEN [err |-> "ValidationError", text |-> <<>>]
    ELSE updatedContent(
            updateAfterRead("linux",
                            [backupDir |-> "", keepBackups |-> TRUE, atomicWrite |-> TRUE],
                            [IdleCall EXCEPT !.req = yamlRequest("go-tag-updater-1.yaml", newTag)],
                            content))

\* Execute returns err with the result as it is
FlowFail(f, err) == [f EXCEPT !.pc = "done", !.err = err]

\* a request that changes the project was sent
Sent(f, name, branch) == [f EXCEPT !.calls = Append(@, [call |-> name, branch |-> branch])]

\* the project after branch was created from ref, after branch was deleted, and
\* after text was committed to path on branch
WithBranch(project, branch, ref) ==
    [project EXCEPT
        !.branches = @ \cup {branch},
        !.files = [f \in DOMAIN @ \cup {<<branch, g[2]>> : g \in {h \in DOMAIN @ : h[1] = ref}}
                     |-> IF f[1] = branch THEN @[<<ref, f[2]>>] ELSE @[f]]]
WithoutBranch(project, branch) ==
    [project EXCEPT
        !.branches = @ \ {branch},
        !.files = [f \in {g \in DOMAIN @ : g[1] # branch} |-> @[f]]]
WithFile(project, branch, path, text) ==
    [project EXCEPT
        !.files = [f \in DOMAIN @ \cup {<<branch, path>>}
                     |-> IF f = <<branch, path>> THEN text ELSE @[f]]]

\* the configurations and the projects of the model: a tag with characters
\* that are cleaned, a configured branch name that is valid and one that is
\* not, a file that is missing, that holds a tag, and that is no YAML
FlowTags == {"v2.0.0", "rel/2:0"}
FlowBranchNames == {"", "bump", "bad name"}
FlowFiles == {<<>>, AppText, BrokenText}

InitFlow ==
    /\ IdlePath
    /\ IdleYaml
    /\ IdleFiles
    /\ IdleGitlab
    /\ config \in [filePath : {"app.yaml"}, newTag : FlowTags,
                   branchName : FlowBranchNames, targetBranch : {"main"},
                   dryRun : BOOLEAN]
    /\ \E held \in FlowFiles, taken \in BOOLEAN, rule \in BOOLEAN :
          remote = [branches |-> {"main"} \cup
                                  (IF taken
                                   THEN {"bump", baseName("update-tag", config.newTag,
                                                          BranchTimestamp(now))}
                                   ELSE {}),
                    protected |-> {"main"} \cup
                                  (IF rule
                                   THEN {"bump", baseName("update-tag", config.newTag,
                                                          BranchTimestamp(now))}
                                   ELSE {}),
                    files |-> IF held = <<>> THEN [f \in {} |-> <<>>]
                              ELSE [f \in {<<"main", "app.yaml">>} |-> held],
                    mergeRequests |-> {}]
    /\ flow = NoFlow

\* Execute begins
Execute ==
    /\ flow.pc = "idle"
    /\ flow' = [NoFlow EXCEPT !.pc = "fileExists"]
    /\ UNCHANGED <<config, remote, pathVars, yamlVars, fileVars, gitlabVars>>

\* validateAndUpdateContent: FileManager.FileExists
FileExists ==
    /\ flow.pc = "fileExists"
    /\ \E failed \in BOOLEAN :
          flow' = IF failed \/ config.filePath = "" THEN FlowFail(flow, "APIError")
                  ELSE IF <<RefOf(config.targetBranch), config.filePath>>
                              \notin DOMAIN remote.files
                  THEN FlowFail(flow, "error")
                  ELSE [flow EXCEPT !.pc = "getFileContent"]
    /\ UNCHANGED <<config, remote, pathVars, yamlVars, fileVars, gitlabVars>>

\* validateAndUpdateContent: FileManager.GetFileContent
GetFileContent ==
    /\ flow.pc = "getFileContent"
    /\ \E failed \in BOOLEAN :
          flow' = IF failed \/ <<RefOf(config.targetBranch), config.filePath>>
                                  \notin DOMAIN remote.files
                  THEN FlowFail(flow, "APIError")
                  ELSE [flow EXCEPT
                          !.pc = "updateYAMLContent",
                          !.content = remote.files[<<RefOf(config.targetBranch),
                                                     config.filePath>>]]
    /\ UNCHANGED <<config, remote, pathVars, yamlVars, fileVars, gitlabVars>>

\* validateAndUpdateContent: updateYAMLContent; the temporary file may fail
UpdateYAMLContent ==
    /\ flow.pc = "updateYAMLContent"
    /\ \E failed \in BOOLEAN :
          flow' = IF failed THEN FlowFail(flow, "FileSystemError")
                  ELSE IF updateYAMLContent(flow.content, config.newTag).err # NoError
                  THEN FlowFail(flow, updateYAMLContent(flow.content, config.newTag).err)
                  ELSE [flow EXCEPT
                          !.pc = "prepareBranchName",
                          !.newContent =
                              updateYAMLContent(flow.content, config.newTag).text]
    /\ UNCHANGED <<config, remote, pathVars, yamlVars, fileVars, gitlabVars>>

\* the branch name is prepared
Prepared(f, name) ==
    [f EXCEPT !.pc = "prepared", !.branchName = name, !.result.branchName = name]

\* prepareBranchName: the configured name, or GenerateUniqueBranchName with its
\* request BranchExists
PrepareBranchName ==
    /\ flow.pc = "prepareBranchName"
    /\ \E failed \in BOOLEAN :
          flow' = IF config.branchName # "" THEN Prepared(flow, config.branchName)
                  ELSE IF failed THEN FlowFail(flow, "APIError")
                  ELSE Prepared(flow,
                          uniqueBranchName(
                              baseName("update-tag", config.newTag, BranchTimestamp(now)),
                              baseName("update-tag", config.newTag, BranchTimestamp(now))
                                  \in remote.branches))
    /\ UNCHANGED <<config, remote, pathVars, yamlVars, fileVars, gitlabVars>>

\* Execute, step 3: the run is a dry run
dryRunIgnored(cfg) == FALSE
dryRunConfigured(cfg) == cfg.dryRun

\* handleDryRun
HandleDryRun ==
    /\ flow.pc = "prepared"
    /\ dryRunConfigured(config)
    /\ flow' = [flow EXCEPT !.pc = "done", !.result.success = TRUE,
                            !.result.message = "Dry run completed successfully"]
    /\ UNCHANGED <<config, remote, pathVars, yamlVars, fileVars, gitlabVars>>

\* executeUpdate: BranchManager.CreateBranch; GitLab refuses a branch that
\* exists and a reference that does not
CreateBranch ==
    /\ flow.pc = "prepared"
    /\ ~dryRunConfigured(config)
    /\ \E failed \in BOOLEAN :
          IF \/ Len(flow.branchName) > MaxBranchNameLength
             \/ validateBranchName(flow.branchName) # NoError
          THEN /\ flow' = FlowFail(flow, "ValidationError")
               /\ remote' = remote
          ELSE IF \/ failed
                  \/ flow.branchName \in remote.branches
                  \/ RefOf(config.targetBranch) \notin remote.branches
          THEN /\ flow' = FlowFail(Sent(flow, "CreateBranch", flow.branchName), "APIError")
               /\ remote' = remote
          ELSE /\ flow' = [Sent(flow, "CreateBranch", flow.branchName) EXCEPT
                              !.pc = "updateFile", !.created = TRUE]
               /\ remote' = WithBranch(remote, flow.branchName, RefOf(config.targetBranch))
    /\ UNCHANGED <<config, pathVars, yamlVars, fileVars, gitlabVars>>

\* the file update failed: the branch is to be deleted, then err is returned
UpdateFailed(f, err) == [f EXCEPT !.pc = "deleteBranch", !.err = err]

\* executeUpdate: FileManager.UpdateFileContent
UpdateFileContent ==
    /\ flow.pc = "updateFile"
    /\ \E failed \in BOOLEAN :
          IF config.filePath = "" \/ flow.newContent = <<>>
          THEN /\ flow' = UpdateFailed(flow, "ValidationError")
               /\ remote' = remote
          ELSE IF failed \/ RefOf(flow.branchName) \notin remote.branches
          THEN /\ flow' = UpdateFailed(Sent(flow, "UpdateFile", flow.branchName), "APIError")
               /\ remote' = remote
          ELSE /\ flow' = [Sent(flow, "UpdateFile", flow.branchName) EXCEPT
                              !.pc = "createMergeRequest", !.result.fileUpdated = TRUE]
               /\ remote' = WithFile(remote, RefOf(flow.branchName), config.filePath,
                                     flow.newContent)
    /\ UNCHANGED <<config, pathVars, yamlVars, fileVars, gitlabVars>>

\* executeUpdate: BranchManager.DeleteBranch after the failed file update, its
\* error dropped: GetBranch may fail, the branch may be protected, the request
\* may fail
DeleteBranch ==
    /\ flow.pc = "deleteBranch"
    /\ \E found \in BOOLEAN, failed \in BOOLEAN :
          IF flow.branchName = ""
          THEN /\ flow' = [flow EXCEPT !.pc = "done", !.deleteErr = "ValidationError"]
               /\ remote' = remote
          ELSE IF ~found \/ flow.branchName \notin remote.branches
          THEN /\ flow' = [flow EXCEPT !.pc = "done", !.deleteErr = "APIError"]
               /\ remote' = remote
          ELSE IF flow.branchName \in remote.protected
          THEN /\ flow' = [flow EXCEPT !.pc = "done", !.deleteErr = "ValidationError"]
               /\ remote' = remote
          ELSE IF failed
          THEN /\ flow' = [Sent(flow, "DeleteBranch", flow.branchName) EXCEPT
                              !.pc = "done", !.deleteErr = "APIError"]
               /\ remote' = remote
          ELSE /\ flow' = [Sent(flow, "DeleteBranch", flow.branchName) EXCEPT
                              !.pc = "done"]
               /\ remote' = WithoutBranch(remote, flow.branchName)
    /\ UNCHANGED <<config, pathVars, yamlVars, fileVars, gitlabVars>>

\* executeUpdate: SimpleMergeRequestManager.CreateMergeRequest
CreateMergeRequest ==
    /\ flow.pc = "createMergeRequest"
    /\ \E failed \in BOOLEAN :
          IF flow.branchName = "" \/ config.targetBranch = ""
          THEN /\ flow' = FlowFail(flow, "ValidationError")
               /\ remote' = remote
          ELSE IF \/ failed
                  \/ [source |-> flow.branchName, target |-> config.targetBranch]
                         \in remote.mergeRequests
          THEN /\ flow' = FlowFail(Sent(flow, "CreateMergeRequest", flow.branchName),
                                   "APIError")
               /\ remote' = remote
          ELSE /\ flow' = [Sent(flow, "CreateMergeRequest", flow.branchName) EXCEPT
                              !.pc = "done",
                              !.result.success = TRUE,
                              !.result.mergeRequest =
                                  Cardinality(remote.mergeRequests) + 1,
                              !.result.message = "Tag update completed successfully"]
               /\ remote' = [remote EXCEPT
                               !.mergeRequests =
                                   @ \cup {[source |-> flow.branchName,
                                            target |-> config.targetBranch]}]
    /\ UNCHANGED <<config, pathVars, yamlVars, fileVars, gitlabVars>>

NextFlow ==
    \/ Execute
    \/ FileExists
    \/ GetFileContent
    \/ UpdateYAMLContent
    \/ PrepareBranchName
    \/ HandleDryRun
    \/ CreateBranch
    \/ UpdateFileContent
    \/ DeleteBranch
    \/ CreateMergeRequest

SpecFlow == InitFlow /\ [][NextFlow]_vars

(***************************************************************************)
(* Claims about the workflow, under SpecFlow                               *)
(***************************************************************************)
\* C20: once Execute has returned an error after CreateBranch created the
\* branch, and DeleteBranch, if it was called, returned no error, the project
\* no longer has that branch.
C20_FailedExecuteLeavesNoBranch ==
    (/\ flow.pc = "done"
     /\ flow.err # NoError
     /\ flow.created
     /\ flow.deleteErr = NoError)
        => flow.branchName \notin remote.branches

\* C21: in a dry run Execute sends no request that changes the project: no
\* CreateBranch, UpdateFile, CreateMergeRequest or DeleteBranch, at any step.
C21_DryRunSendsNoChange ==
    config.dryRun => flow.calls = <<>>

\* a dry run that went through every step and returned its preview
C21_Witness ==
    /\ config.dryRun
    /\ flow.pc = "done"
    /\ flow.result.success
    /\ flow.result.branchName # ""

(***************************************************************************)
(* BranchManager.GenerateUniqueBranchName on its own: a prefix and a tag   *)
(* are handed to it, it makes the name and asks GitLab whether the branch  *)
(* exists.                                                                 *)
(***************************************************************************)
\* the prefixes and tags of the repository's tests, a tag that fills the name
\* to its maximum, longer ones, and a prefix that leaves no room for a tag
GenPrefixes == {"", "update-tag", "update/", "feature/", Repeat("p", 90)}
GenTags == {"v1.2.3", "feature/v1.2.3", "registry:v1.2.3", "v1.404.0",
            Repeat("t", 77), Repeat("t", 83)}

\* what GitLab answers to GetBranch: the branch, or an error
GetBranchAnswers(project, name) ==
    IF name \in project.branches
    THEN {"200 OK", "500 Internal Server Error"}
    ELSE {"404 Branch Not Found", "500 Internal Server Error"}

\* BranchManager.BranchExists, from the answer to GetBranch: an error whose
\* text holds 404 or not found tells that the branch does not exist
BranchExists(name, answer) ==
    IF answer = "200 OK" THEN [exists |-> TRUE, err |-> NoError]
    ELSE IF \/ Contains("failed to get branch " \o name \o ": " \o answer, "404")
            \/ Contains("failed to get branch " \o name \o ": " \o answer, "not found")
    THEN [exists |-> FALSE, err |-> NoError]
    ELSE [exists |-> FALSE, err |-> "APIError"]

InitGenerate ==
    /\ IdlePath
    /\ IdleYaml
    /\ IdleFiles
    /\ config = [filePath |-> "", newTag |-> "", branchName |-> "",
                 targetBranch |-> "", dryRun |-> FALSE]
    /\ flow = NoFlow
    /\ wait = NoWait
    /\ gen \in [pc : {"input"}, prefix : GenPrefixes, tag : GenTags, baseName : {""},
                name : {""}, err : {NoError}]
    /\ \E taken \in BOOLEAN :
          remote = [branches |-> {"main"} \cup
                                  (IF taken
                                   THEN {baseName(gen.prefix, gen.tag, BranchTimestamp(now))}
                                   ELSE {}),
                    protected |-> {"main"}, files |-> [f \in {} |-> <<>>],
                    mergeRequests |-> {}]

\* GenerateUniqueBranchName, up to its request
GenerateUniqueBranchName ==
    /\ gen.pc = "input"
    /\ gen' = [gen EXCEPT !.pc = "branchExists",
                          !.baseName = baseName(gen.prefix, gen.tag, BranchTimestamp(now))]
    /\ UNCHANGED <<pathVars, yamlVars, fileVars, flowVars, wait>>

\* the name GenerateUniqueBranchName returns, from what BranchExists returned
generated(call, found) ==
    IF found.err # NoError THEN [call EXCEPT !.pc = "done", !.err = found.err]
    ELSE [call EXCEPT !.pc = "done",
                      !.name = uniqueBranchName(call.baseName, found.exists)]

\* GenerateUniqueBranchName: BranchExists answers, the name is returned
AnswerBranchExists ==
    /\ gen.pc = "branchExists"
    /\ \E answer \in GetBranchAnswers(remote, gen.baseName) :
          gen' = generated(gen, BranchExists(gen.baseName, answer))
    /\ UNCHANGED <<pathVars, yamlVars, fileVars, flowVars, wait>>

NextGenerate ==
    \/ GenerateUniqueBranchName
    \/ AnswerBranchExists

SpecGenerate == InitGenerate /\ [][NextGenerate]_vars

(***************************************************************************)
(* Claims about GenerateUniqueBranchName, under SpecGenerate               *)
(***************************************************************************)
\* C22: a name GenerateUniqueBranchName returns without error has at most
\* MaxBranchNameLength characters and begins with the prefix it was given.
C22_NameWithinLengthAndPrefixed ==
    (gen.pc = "done" /\ gen.err = NoError)
        => /\ Len(gen.name) <= MaxBranchNameLength
           /\ HasPrefix(gen.name, gen.prefix)

(***************************************************************************)
(* The conflict detector's wait (conflicts.go).  Time is counted in        *)
(* seconds and passes one ConflictCheckInterval at a time, each interval   *)
(* putting a tick into ticker.C; the clock stops at the deadline of        *)
(* time.After, from which on the timeout stays ready.  A merge request     *)
(* that was merged, closed or deleted stays so.                            *)
(***************************************************************************)
MaxConflictCheckAttempts == 15
\* 10 * time.Second and 15 * time.Minute, in seconds
ConflictCheckInterval == 10
DefaultWaitTimeout == 900
StateOpened == "opened"
StateMerged == "merged"

\* the lists of conflicting merge requests, by IID, and the wait times, in
\* seconds, handed to WaitForConflictsToResolve
ConflictLists == {<<>>, <<1>>, <<1, 2>>}
WaitTimes == {0, 5, 30}

InitWait ==
    /\ IdlePath
    /\ IdleYaml
    /\ IdleFiles
    /\ IdleFlow
    /\ gen = NoGenerate
    /\ \E listed \in ConflictLists, maxWaitTime \in WaitTimes :
          wait = [NoWait EXCEPT !.pc = "input", !.conflictingMRs = listed,
                                !.totalConflicts = Len(listed),
                                !.maxWaitTime = maxWaitTime,
                                !.states = [iid \in 1..Len(listed) |-> StateOpened]]

\* WaitForConflictsToResolve, up to the select
WaitForConflictsToResolve ==
    /\ wait.pc = "input"
    /\ wait' = IF wait.totalConflicts = 0
               THEN [wait EXCEPT !.pc = "done", !.site = "no conflicts"]
               ELSE [wait EXCEPT !.pc = "select",
                                 !.maxWaitTime = IF @ <= 0 THEN DefaultWaitTimeout ELSE @]
    /\ UNCHANGED <<pathVars, yamlVars, fileVars, flowVars, gen>>

\* select: case <-ctx.Done()
CtxDone ==
    /\ wait.pc = "select"
    /\ wait.cancelled
    /\ wait' = [wait EXCEPT !.pc = "done", !.err = "Canceled", !.site = "ctx"]
    /\ UNCHANGED <<pathVars, yamlVars, fileVars, flowVars, gen>>

\* select: case <-timeout
Timeout ==
    /\ wait.pc = "select"
    /\ wait.elapsed >= wait.maxWaitTime
    /\ wait' = [wait EXCEPT !.pc = "done", !.err = "APIError", !.site = "timeout"]
    /\ UNCHANGED <<pathVars, yamlVars, fileVars, flowVars, gen>>

\* the end of a poll that never gives up
polledUnbounded(call) ==
    IF call.stillConflicting = 0 THEN [call EXCEPT !.pc = "done", !.site = "resolved"]
    ELSE [call EXCEPT !.pc = "select"]

\* the end of a poll: nil, the error of the last attempt, or the select again
polled(call) ==
    IF call.stillConflicting = 0 THEN [call EXCEPT !.pc = "done", !.site = "resolved"]
    ELSE IF call.attempt >= MaxConflictCheckAttempts
    THEN [call EXCEPT !.pc = "done", !.err = "APIError", !.site = "attempts"]
    ELSE [call EXCEPT !.pc = "select"]

\* select: case <-ticker.C, up to the first GetMergeRequest
TickerFired ==
    /\ wait.pc = "select"
    /\ wait.tick
    /\ LET call == [wait EXCEPT !.tick = FALSE, !.attempt = @ + 1,
                                !.stillConflicting = 0, !.failed = {}, !.i = 1]
       IN  wait' = IF Len(call.conflictingMRs) = 0 THEN polled(call)
                   ELSE [call EXCEPT !.pc = "getMergeRequest"]
    /\ UNCHANGED <<pathVars, yamlVars, fileVars, flowVars, gen>>

\* what GetMergeRequest may answer for a merge request: its state, or an error;
\* for one the project no longer holds, an error
GetMergeRequestAnswers(states, iid) ==
    {[err |-> "APIError", state |-> ""]}
        \cup (IF iid \in DOMAIN states /\ states[iid] # "deleted"
              THEN {[err |-> NoError, state |-> states[iid]]}
              ELSE {})

\* the loop's body on what GetMergeRequest answered for conflictingMRs[i]
lookedUp(call, answer) ==
    IF answer.err # NoError
    THEN [call EXCEPT !.failed = @ \cup {call.conflictingMRs[call.i]}]
    ELSE IF answer.state = StateOpened
    THEN [call EXCEPT !.stillConflicting = @ + 1]
    ELSE call

\* the poll: GetMergeRequest of conflictingMRs[i] answers; after the last one
\* the poll ends
GetMergeRequest ==
    /\ wait.pc = "getMergeRequest"
    /\ \E answer \in GetMergeRequestAnswers(wait.states, wait.conflictingMRs[wait.i]) :
          LET call == lookedUp(wait, answer)
          IN  wait' = IF wait.i = Len(wait.conflictingMRs) THEN polled(call)
                      ELSE [call EXCEPT !.i = @ + 1]
    /\ UNCHANGED <<pathVars, yamlVars, fileVars, flowVars, gen>>

\* an interval passes: the ticker puts a tick into ticker.C
Elapse ==
    /\ wait.pc \in {"select", "getMergeRequest"}
    /\ wait.elapsed < wait.maxWaitTime
    /\ wait' = [wait EXCEPT !.elapsed = @ + ConflictCheckInterval, !.tick = TRUE]
    /\ UNCHANGED <<pathVars, yamlVars, fileVars, flowVars, gen>>

\* the caller cancels ctx
Cancel ==
    /\ wait.pc \in {"input", "select", "getMergeRequest"}
    /\ ~wait.cancelled
    /\ wait' = [wait EXCEPT !.cancelled = TRUE]
    /\ UNCHANGED <<pathVars, yamlVars, fileVars, flowVars, gen>>

\* someone merges or deletes an open merge request
ResolveMergeRequest ==
    /\ wait.pc \in {"input", "select", "getMergeRequest"}
    /\ \E iid \in DOMAIN wait.states, state \in {StateMerged, "deleted"} :
          /\ wait.states[iid] = StateOpened
          /\ wait' = [wait EXCEPT !.states[iid] = state]
    /\ UNCHANGED <<pathVars, yamlVars, fileVars, flowVars, gen>>

NextWait ==
    \/ WaitForConflictsToResolve
    \/ CtxDone
    \/ Timeout
    \/ TickerFired
    \/ GetMergeRequest
    \/ Elapse
    \/ Cancel
    \/ ResolveMergeRequest

SpecWait == InitWait /\ [][NextWait]_vars

\* the goroutine of the call is scheduled, requests are answered and time passes
FairWait ==
    /\ SpecWait
    /\ WF_vars(WaitForConflictsToResolve)
    /\ WF_vars(CtxDone \/ Timeout \/ TickerFired)
    /\ WF_vars(GetMergeRequest)
    /\ WF_vars(Elapse)

(***************************************************************************)
(* Claims about WaitForConflictsToResolve, under SpecWait and FairWait     *)
(***************************************************************************)
\* the listed merge requests that are open
StillOpen == {iid \in DOMAIN wait.states : wait.states[iid] = StateOpened}

\* C28: a WaitForConflictsToResolve that returned has polled at most
\* MaxConflictCheckAttempts times; without conflicts it returned nil before any
\* poll; with conflicts it returned nil only from a poll, and then none of the
\* listed merge requests is still open; and it returned an error only when ctx
\* was cancelled, when the wait time had elapsed or after the last attempt.
C28_NilOnlyWhenNoneOpen ==
    wait.pc = "done"
        => /\ wait.attempt <= MaxConflictCheckAttempts
           /\ wait.totalConflicts = 0 => wait.err = NoError /\ wait.attempt = 0
           /\ (wait.totalConflicts # 0 /\ wait.err = NoError)
                 => wait.attempt >= 1 /\ StillOpen = {}
           /\ wait.err # NoError
                 => \/ wait.err = "Canceled" /\ wait.cancelled
                    \/ wait.err = "APIError" /\ wait.elapsed >= wait.maxWaitTime
                    \/ wait.err = "APIError" /\ wait.attempt = MaxConflictCheckAttempts

\* the outcome of a call, a merge request whose lookup failed in the last poll
\* counted as not open; and a call that polled and waits again found a listed
\* merge request open in its last poll
ReportedOutcome ==
    /\ (wait.pc = "select" /\ wait.attempt >= 1) => wait.stillConflicting > 0
    /\ wait.pc = "done"
            => /\ wait.attempt <= MaxConflictCheckAttempts
               /\ wait.totalConflicts = 0 => wait.err = NoError /\ wait.attempt = 0
               /\ (wait.totalConflicts # 0 /\ wait.err = NoError)
                     => wait.attempt >= 1 /\ StillOpen \subseteq wait.failed
               /\ wait.err # NoError
                     => \/ wait.err = "Canceled" /\ wait.cancelled
                        \/ wait.err = "APIError" /\ wait.elapsed >= wait.maxWaitTime
                        \/ wait.err = "APIError" /\ wait.attempt = MaxConflictCheckAttempts

\* C28, amended: every WaitForConflictsToResolve returns, after at most
\* MaxConflictCheckAttempts polls; without conflicts it returns nil before any
\* poll; with conflicts it returns nil from the first poll in which no listed
\* merge request was reported open, a merge request whose lookup failed counted
\* as not open whatever its state; and it returns an error only when ctx was
\* cancelled, when the wait time had elapsed or after the last attempt.
C28_TerminatesAsReported == []ReportedOutcome /\ <>(wait.pc = "done")

\* a call returned nil from a poll while a listed merge request, whose lookup
\* had failed, was open
C28_Witness ==
    /\ wait.pc = "done" /\ wait.site = "resolved" /\ wait.err = NoError
    /\ StillOpen # {}
    /\ StillOpen \subseteq wait.failed

(***************************************************************************)
(* Claims about UpdateTagInFile's auto-detection against UpdateTagSimple,  *)
(* under SpecYaml.                                                         *)
(***************************************************************************)
\* what a dry run of UpdateTagInFile without a tag path makes of content, read
\* without failure from a file app.yaml, under NewUpdater's defaults
AutoDetected(content, newTag) ==
    IF newTag = "" THEN [err |-> "ValidationError", text |-> <<>>]
    ELSE updatedContent(
            updateAfterRead("linux",
                            [backupDir |-> "", keepBackups |-> TRUE, atomicWrite |-> TRUE],
                            [IdleCall EXCEPT !.req = yamlRequest("app.yaml", newTag)],
                            content))

\* C29: on every text and new value, UpdateTagInFile without a tag path fails
\* exactly when UpdateTagSimple fails, and when they succeed they return the
\* same updated text, which is to say they updated the same field.
C29_AutoDetectionAgreesWithSimple ==
    yPc = "updated"
        => /\ (yOut.err = NoError) <=> (AutoDetected(yText, yTag).err = NoError)
           /\ yOut.err = NoError => AutoDetected(yText, yTag).text = yOut.text

(***************************************************************************)
(* UpdateTagInFile on a document whose updated text is no valid YAML: the  *)
(* tag field of the document is an integer, and the new value, which is    *)
(* none, is written under the integer's tag.                               *)
(***************************************************************************)
IntText ==
    Emit(Document(Mapping(<<KV("tag", Scalar("123", "!!int", {})),
                            KV("name", Scalar("test-app", "!!str", {}))>>)), 0, 2)

InitValidate ==
    /\ IdlePath
    /\ IdleFlow
    /\ IdleGitlab
    /\ IdleYaml
    /\ updater \in [backupDir : {"", "backups"}, keepBackups : BOOLEAN,
                    atomicWrite : BOOLEAN]
    /\ \E text \in {AppText, IntText} : fs = [p \in {"cfg/app.yaml"} |-> text]
    /\ dirs = {".", "cfg"}
    /\ now = 0
    /\ proc = [self \in {1} |-> IdleCall]
    /\ nCalls = 0
    /\ backupWrites = [p \in {} |-> 0]
    /\ lastCall = NoLast

NextValidate ==
    \/ UpdateTagInFile
    \/ Stat
    \/ ReadFile
    \/ createBackup
    \/ OpenFile
    \/ WriteData
    \/ Rename
    \/ RemoveTemp
    \/ Return

SpecValidate == InitValidate /\ [][NextValidate]_vars

(***************************************************************************)
(* Claims about the validation after the update, under SpecValidate.       *)
(***************************************************************************)
\* C30: in an UpdateTagInFile that is no dry run, with ValidateAfter set, whose
\* updated text failed ValidateYAML, the file is as it was when the call began,
\* no backup was written, and Success is not reported.
C30_WrittenOnlyIfValid ==
    \A self \in DOMAIN proc :
        LET call == proc[self]
        IN  (/\ call.op = "update" /\ ~call.req.dryRun /\ call.req.validateAfter
             /\ call.res.validationError # NoError)
                => /\ ~call.res.success
                   /\ SameFile(fs, call.fs0, LiveFile(call))
                   /\ \A p \in DOMAIN fs \ DOMAIN call.fs0 : ~HasSuffix(p, ".backup")

==============================================================================
